---- MODULE Spec2Model ----
(***************************************************************************)
(* The Supabase-backed chat service of livelink-chat                       *)
(* (src/src/types/chat.ts, lines 68-800) over the Postgres schema of       *)
(* src/src/services/chatService.ts, lines 455-621.                         *)
(*                                                                         *)
(* The store is the set of tables; a call of a service function is a       *)
(* record in `calls`, and every `await` of a store operation is one step   *)
(* of that call, so that calls of different clients interleave between     *)
(* their store operations exactly as the asynchronous code allows.         *)
(***************************************************************************)
EXTENDS Integers, Sequences, FiniteSets, TLC

VARIABLES
  chats,            \* public.chats, in insertion order; a chat's id is its index
  messages,         \* public.messages, in creation order
  unread_counts,    \* public.unread_counts, a set of rows
  friend_requests,  \* public.friend_requests, a set of rows
  friends,          \* public.friends, in insertion order
  group_members,    \* public.group_members, a set of rows
  profiles,         \* public.profiles, a set of rows
  request_ids,      \* number of friend_requests rows ever inserted (ids are never reused)
  sends,            \* history: per (chat, sender), the sendMessage calls started
  resets,           \* history: per (chat, user), the sends in flight at or started after the user's last reset
  calls,            \* the service calls in flight, one slot per concurrent caller
  page,             \* the Chat page of one signed-in user
  typing_status,    \* public.typing_status, a set of rows
  clock,            \* the store's now(), in debounce intervals
  hooks,            \* what the subscriptions of one client last delivered
  user_presence,    \* public.user_presence, a set of rows
  session,          \* the AuthProvider of one client
  net,              \* the fetches and change events on their way to the subscriber
  firestore         \* the Firestore collection chats

vars == <<chats, messages, unread_counts, friend_requests, friends,
          group_members, profiles, request_ids, sends, resets, calls, page,
          typing_status, clock, hooks, user_presence, session, net, firestore>>

store == <<chats, messages, unread_counts, friend_requests, friends,
           group_members, profiles>>
history == <<request_ids, sends, resets>>
beside == <<user_presence, session, net, firestore>>
aside == <<typing_status, clock, hooks, beside>>
quiet == <<typing_status, clock, hooks, user_presence, session, firestore>>

----------------------------------------------------------------------------
(* Bounds of the model *)

NumCalls == 2       \* concurrent callers
MaxChats == 2       \* rows of chats
MaxMessages == 2    \* rows of messages
MaxRequests == 2    \* friend_requests rows ever inserted
MaxGroups == 1      \* group chats created
MaxMembers == 3     \* length of a chat's participants list

Users == {"A", "B", "C"}
Contents == {"hi", "yo"}
Callers == 1..NumCalls

\* the username a user signed up with
Username(u) == CASE u = "A" -> "alice" [] u = "B" -> "bob" [] OTHER -> "carol"

Null == "null"      \* SQL NULL in a text column
NoRow == -1         \* maybeSingle() found no row

----------------------------------------------------------------------------
(* Helpers over sequences *)

Contains(s, x) == \E i \in DOMAIN s : s[i] = x

RECURSIVE Filter(_, _)
\* s.filter(id => id !== x)
Filter(s, x) ==
  IF s = <<>> THEN <<>>
  ELSE IF Head(s) = x THEN Filter(Tail(s), x)
       ELSE <<Head(s)>> \o Filter(Tail(s), x)

RECURSIVE Dedup(_)
\* Array.from(new Set(s)): first occurrences, in order
Dedup(s) ==
  IF s = <<>> THEN <<>>
  ELSE <<Head(s)>> \o Filter(Dedup(Tail(s)), Head(s))

Range(s) == {s[i] : i \in DOMAIN s}

----------------------------------------------------------------------------
(* The calls *)

IdleCall ==
  [op |-> "none", pc |-> "idle", chat |-> 0, user |-> "", other |-> "",
   req |-> 0, content |-> "", parts |-> <<>>, idx |-> 0, existing |-> NoRow,
   ret |-> 0, err |-> "", first |-> 0, retried |-> FALSE, members |-> <<>>,
   logged |-> ""]

Idle(p) == calls[p].pc = "idle"
Done(p) == calls[p].pc = "done"

\* the call returns (resolves with ret, or rejects with err)
Finish(c, ret, err) == [c EXCEPT !.pc = "done", !.ret = ret, !.err = err]

\* the caller drops the settled promise
Return(p) ==
  /\ Done(p)
  /\ calls' = [calls EXCEPT ![p] = IdleCall]
  /\ UNCHANGED <<aside, page, store, history>>

\* a request of the subscriber sent to the store and not yet answered
NewFetch(n, kind, v) ==
  [id |-> n.started + 1, kind |-> kind, pc |-> "sent", value |-> v]

\* a change of public.chats reaches the channel chats_changes of the
\* subscriber, whose handler starts fetchChats()
ChatsChanged(n) ==
  IF n.chatsOf = Null
  THEN n
  ELSE [n EXCEPT !.fetches = @ \cup {NewFetch(n, "chats", <<>>)}, !.started = @ + 1]

----------------------------------------------------------------------------
(* chats *)

ChatIds == 1..Len(chats)

\* a timestamp: the values of last_message_time other than null are not
\* told apart
SomeTime == "time"

\* the row an insert into chats stores: last_message is null and
\* last_message_time is DEFAULT now()
NewChat(type, name, participants) ==
  [type |-> type, name |-> name, participants |-> participants,
   last_message |-> Null, last_message_time |-> SomeTime]

\* a match that wants the participants in the order of the arguments
DMMatches_Ordered(cs, u1, u2) ==
  {i \in DOMAIN cs : cs[i].type = "dm" /\ cs[i].participants = <<u1, u2>>}

\* .from('chats').select('*').eq('type','dm').contains('participants',[u1])
\* then .find(chat => chat.participants.includes(u2)): the first such row
DMMatches(cs, u1, u2) ==
  {i \in DOMAIN cs : /\ cs[i].type = "dm"
                     /\ Contains(cs[i].participants, u1)
                     /\ Contains(cs[i].participants, u2)}

FindDMChat(cs, u1, u2) ==
  IF DMMatches(cs, u1, u2) = {} THEN 0
  ELSE CHOOSE i \in DMMatches(cs, u1, u2) :
         \A j \in DMMatches(cs, u1, u2) : i <= j

\* calls that may still insert a chat row
MayInsertChat(q) ==
  calls[q].pc \in {"acc_delete", "acc_insert", "dm_query", "dm_insert"}

\* the chats table, with the rows the calls in flight may insert, has room
\* for one more row (the bound of the model on the table)
ChatRoom == Len(chats) + Cardinality({q \in Callers : MayInsertChat(q)}) < MaxChats

\* getOrCreateDMChat(userId1, userId2), called directly
Start_getOrCreateDMChat(p, u1, u2) ==
  /\ Idle(p)
  /\ calls' = [calls EXCEPT ![p] =
       [IdleCall EXCEPT !.op = "getOrCreateDMChat", !.pc = "dm_query",
                        !.user = u1, !.other = u2]]
  /\ UNCHANGED <<aside, page, store, history>>

\* the existence query and the find over its result
getOrCreateDMChat_query(p) ==
  /\ calls[p].pc = "dm_query"
  /\ LET found == FindDMChat(chats, calls[p].user, calls[p].other) IN
       calls' = [calls EXCEPT ![p] =
         IF found # 0 THEN Finish(@, found, "")
         ELSE [@ EXCEPT !.pc = "dm_insert"]]
  /\ UNCHANGED <<aside, page, store, history>>

\* insert({type:'dm', participants:[userId1,userId2]}).select().single()
getOrCreateDMChat_insert(p) ==
  /\ calls[p].pc = "dm_insert"
  /\ chats' = Append(chats, NewChat("dm", Null, <<calls[p].user, calls[p].other>>))
  /\ calls' = [calls EXCEPT ![p] = Finish(@, Len(chats) + 1, "")]
  /\ net' = ChatsChanged(net)
  /\ UNCHANGED <<quiet, page, messages, unread_counts, friend_requests, friends,
                 group_members, profiles, history>>

----------------------------------------------------------------------------
(* profiles *)

\* getUserById(userId): .eq('firebase_uid', userId).maybeSingle()
getUserById(userId) == {r \in profiles : r.firebase_uid = userId}

----------------------------------------------------------------------------
(* friend_requests and friends *)

\* .maybeSingle(): the row when the query matches exactly one row; data is
\* null when it matches none, and also (with an error the callers ignore)
\* when it matches several
MaybeSingle(rows) == IF Cardinality(rows) = 1 THEN rows ELSE {}

RequestsOf(s, r) ==
  {q \in friend_requests : q.sender_id = s /\ q.receiver_id = r}

FriendRows(tbl, u, f) ==
  {i \in DOMAIN tbl : tbl[i].user_id = u /\ tbl[i].friend_id = f}

\* the insert into a table without the UNIQUE(user_id, friend_id) constraint
InsertFriends_NoUnique(tbl, rows) == tbl \o rows

RECURSIVE InsertFriends_RowByRow(_, _)
\* the insert done row by row, a conflicting row being skipped
InsertFriends_RowByRow(tbl, rows) ==
  IF rows = <<>> THEN tbl
  ELSE InsertFriends_RowByRow(
         IF \E i \in DOMAIN tbl : tbl[i] = Head(rows) THEN tbl
         ELSE Append(tbl, Head(rows)),
         Tail(rows))

\* UNIQUE(user_id, friend_id): an INSERT of several rows is one statement,
\* which fails as a whole (no row inserted) when a row repeats a stored row
\* or another row of the statement
InsertFriends(tbl, rows) ==
  IF \/ \E i \in DOMAIN rows : FriendRows(tbl, rows[i].user_id, rows[i].friend_id) # {}
     \/ \E i, j \in DOMAIN rows : i # j /\ rows[i] = rows[j]
  THEN tbl
  ELSE tbl \o rows

\* the rows inserted into friend_requests, with those the calls in flight
\* may insert, stay under the bound
RequestRoom ==
  request_ids + Cardinality({q \in Callers : calls[q].op = "sendFriendRequest"
                                               /\ ~Done(q)}) < MaxRequests

\* sendFriendRequest(senderId, receiverId)
Start_sendFriendRequest(p, s, r) ==
  /\ Idle(p)
  /\ calls' = [calls EXCEPT ![p] =
       [IdleCall EXCEPT !.op = "sendFriendRequest", !.pc = "fr_sender",
                        !.user = s, !.other = r]]
  /\ UNCHANGED <<aside, page, store, history>>

\* const sender = await getUserById(senderId); if (!sender) throw
sendFriendRequest_sender(p) ==
  /\ calls[p].pc = "fr_sender"
  /\ calls' = [calls EXCEPT ![p] =
       IF getUserById(calls[p].user) = {} THEN Finish(@, 0, "Sender not found")
       ELSE [@ EXCEPT !.pc = "fr_existing"]]
  /\ UNCHANGED <<aside, page, store, history>>

\* the check for an existing request of the same sender and receiver
sendFriendRequest_existing(p) ==
  /\ calls[p].pc = "fr_existing"
  /\ calls' = [calls EXCEPT ![p] =
       IF MaybeSingle(RequestsOf(calls[p].user, calls[p].other)) # {}
       THEN Finish(@, 0, "Request already sent")
       ELSE [@ EXCEPT !.pc = "fr_friends"]]
  /\ UNCHANGED <<aside, page, store, history>>

\* the check for an existing friends row (senderId, receiverId)
sendFriendRequest_friends(p) ==
  /\ calls[p].pc = "fr_friends"
  /\ calls' = [calls EXCEPT ![p] =
       IF MaybeSingle(FriendRows(friends, calls[p].user, calls[p].other)) # {}
       THEN Finish(@, 0, "Already friends")
       ELSE [@ EXCEPT !.pc = "fr_insert"]]
  /\ UNCHANGED <<aside, page, store, history>>

\* insert({sender_id, receiver_id, status: 'pending'})
sendFriendRequest_insert(p) ==
  /\ calls[p].pc = "fr_insert"
  /\ friend_requests' = friend_requests \cup
       {[id |-> request_ids + 1, sender_id |-> calls[p].user,
         receiver_id |-> calls[p].other, status |-> "pending"]}
  /\ request_ids' = request_ids + 1
  /\ calls' = [calls EXCEPT ![p] = Finish(@, 0, "")]
  /\ UNCHANGED <<aside, page, chats, messages, unread_counts, friends, group_members,
                 profiles, sends, resets>>

\* acceptFriendRequest(requestId, userId, friendId), as handleAccept calls
\* it: for a request of the pending list, by its receiver
Start_acceptFriendRequest(p, q) ==
  /\ Idle(p)
  /\ q \in friend_requests
  /\ calls' = [calls EXCEPT ![p] =
       [IdleCall EXCEPT !.op = "acceptFriendRequest", !.pc = "acc_delete",
                        !.req = q.id, !.user = q.receiver_id,
                        !.other = q.sender_id]]
  /\ UNCHANGED <<aside, page, store, history>>

\* the caller calls acceptFriendRequest again with the same arguments
Retry_acceptFriendRequest(p) ==
  /\ Done(p)
  /\ calls[p].op = "acceptFriendRequest"
  /\ ~calls[p].retried
  /\ calls' = [calls EXCEPT ![p] =
       [IdleCall EXCEPT !.op = "acceptFriendRequest", !.pc = "acc_delete",
                        !.req = calls[p].req, !.user = calls[p].user,
                        !.other = calls[p].other, !.first = calls[p].ret,
                        !.retried = TRUE]]
  /\ UNCHANGED <<aside, page, store, history>>

\* a delete that matches no row
DeleteRequest_None(tbl, id) == tbl

DeleteRequest(tbl, id) == {q \in tbl : q.id # id}

\* from('friend_requests').delete().eq('id', requestId)
acceptFriendRequest_delete(p) ==
  /\ calls[p].pc = "acc_delete"
  /\ friend_requests' = DeleteRequest(friend_requests, calls[p].req)
  /\ calls' = [calls EXCEPT ![p].pc = "acc_insert"]
  /\ UNCHANGED <<aside, page, chats, messages, unread_counts, friends, group_members,
                 profiles, history>>

\* from('friends').insert([{userId, friendId}, {friendId, userId}]); its
\* error is not looked at, and getOrCreateDMChat(userId, friendId) follows
acceptFriendRequest_insert(p) ==
  /\ calls[p].pc = "acc_insert"
  /\ friends' = InsertFriends(friends,
       <<[user_id |-> calls[p].user, friend_id |-> calls[p].other],
         [user_id |-> calls[p].other, friend_id |-> calls[p].user]>>)
  /\ calls' = [calls EXCEPT ![p].pc = "dm_query"]
  /\ UNCHANGED <<aside, page, chats, messages, unread_counts, friend_requests,
                 group_members, profiles, history>>

\* rejectFriendRequest(requestId): one delete
rejectFriendRequest(p, q) ==
  /\ Idle(p)
  /\ q \in friend_requests
  /\ friend_requests' = DeleteRequest(friend_requests, q.id)
  /\ calls' = [calls EXCEPT ![p] =
       Finish([IdleCall EXCEPT !.op = "rejectFriendRequest", !.req = q.id,
                               !.user = q.receiver_id, !.other = q.sender_id],
              0, "")]
  /\ UNCHANGED <<aside, page, chats, messages, unread_counts, friends, group_members,
                 profiles, history>>

\* the sender of the request that was just rejected sends it again
Again_sendFriendRequest(p) ==
  /\ Done(p)
  /\ calls[p].op = "rejectFriendRequest"
  /\ calls' = [calls EXCEPT ![p] =
       [IdleCall EXCEPT !.op = "sendFriendRequest", !.pc = "fr_sender",
                        !.user = calls[p].other, !.other = calls[p].user,
                        !.retried = TRUE]]
  /\ UNCHANGED <<aside, page, store, history>>

----------------------------------------------------------------------------
(* messages and unread_counts *)

UnreadRows(tbl, c, u) == {r \in tbl : r.chat_id = c /\ r.user_id = u}

\* the count a reader sees: unreadData?.count || 0
UnreadCount(c, u) ==
  IF UnreadRows(unread_counts, c, u) = {} THEN 0
  ELSE (CHOOSE r \in UnreadRows(unread_counts, c, u) : TRUE).count

\* select('count').eq('chat_id', c).eq('user_id', u).maybeSingle()
SelectCount(tbl, c, u) ==
  IF MaybeSingle(UnreadRows(tbl, c, u)) = {} THEN NoRow
  ELSE (CHOOSE r \in UnreadRows(tbl, c, u) : TRUE).count

\* an update that adds two to the count read
UpdateCount_ByTwo(tbl, c, u, existing) ==
  {IF r.chat_id = c /\ r.user_id = u THEN [r EXCEPT !.count = existing + 2] ELSE r
     : r \in tbl}

\* update({count: existing.count + 1}).eq('chat_id', c).eq('user_id', u)
UpdateCount(tbl, c, u, existing) ==
  {IF r.chat_id = c /\ r.user_id = u THEN [r EXCEPT !.count = existing + 1] ELSE r
     : r \in tbl}

\* insert({chat_id, user_id, count: 1}): fails under UNIQUE(chat_id, user_id)
\* when the row exists, and the error is not looked at
InsertCount(tbl, c, u) ==
  IF UnreadRows(tbl, c, u) # {} THEN tbl
  ELSE tbl \cup {[chat_id |-> c, user_id |-> u, count |-> 1]}

\* upsert({chat_id, user_id, count: 0}, {onConflict: 'chat_id,user_id'})
\* an upsert that leaves an existing row as it is
UpsertZero_KeepRow(tbl, c, u) ==
  IF UnreadRows(tbl, c, u) # {} THEN tbl
  ELSE tbl \cup {[chat_id |-> c, user_id |-> u, count |-> 0]}

UpsertZero(tbl, c, u) ==
  (tbl \ UnreadRows(tbl, c, u)) \cup {[chat_id |-> c, user_id |-> u, count |-> 0]}

\* a loop that does not skip the sender
NextOther_All(parts, i, sender) == IF i <= Len(parts) THEN i ELSE 0

\* the next participant of the for loop that is not the sender, from index i
\* on; 0 when the loop is over
NextOther(parts, i, sender) ==
  IF \E j \in i..Len(parts) : parts[j] # sender
  THEN CHOOSE j \in i..Len(parts) :
         /\ parts[j] # sender
         /\ \A k \in i..(j - 1) : parts[k] = sender
  ELSE 0

\* a sendMessage call that has started and not returned
Sending(q) ==
  calls[q].pc \in {"sm_insert", "sm_summary", "sm_read", "sm_select", "sm_write"}

Bump(f, k) == IF k \in DOMAIN f THEN [f EXCEPT ![k] = @ + 1] ELSE (k :> 1) @@ f

\* the rows of messages, with those the calls in flight insert, stay under
\* the bound
MessageRoom ==
  Len(messages) + Cardinality({q \in Callers : calls[q].pc = "sm_insert"}) < MaxMessages

\* sendMessage(chatId, senderId, senderName, content)
Start_sendMessage(p, c, s, content) ==
  /\ Idle(p)
  /\ c \in ChatIds
  /\ calls' = [calls EXCEPT ![p] =
       [IdleCall EXCEPT !.op = "sendMessage", !.pc = "sm_insert",
                        !.chat = c, !.user = s, !.content = content]]
  /\ sends' = Bump(sends, <<c, s>>)
  /\ resets' = [k \in DOMAIN resets |->
                  IF k[1] = c /\ k[2] # s THEN resets[k] + 1 ELSE resets[k]]
  /\ UNCHANGED <<aside, page, store, request_ids>>

\* from('messages').insert({...}).select().single(); chat_id REFERENCES chats
sendMessage_insert(p) ==
  /\ calls[p].pc = "sm_insert"
  /\ IF calls[p].chat \in ChatIds
     THEN /\ messages' = Append(messages,
                [chat_id |-> calls[p].chat, sender_id |-> calls[p].user,
                 sender_name |-> Username(calls[p].user),
                 content |-> calls[p].content])
          /\ calls' = [calls EXCEPT ![p].pc = "sm_summary",
                                    ![p].ret = Len(messages) + 1]
     ELSE /\ messages' = messages
          /\ calls' = [calls EXCEPT ![p] = Finish(@, 0, "messageError")]
  /\ UNCHANGED <<aside, page, chats, unread_counts, friend_requests, friends,
                 group_members, profiles, history>>

\* from('chats').update({last_message: content,
\*                       last_message_time: new Date().toISOString()})
sendMessage_summary(p) ==
  /\ calls[p].pc = "sm_summary"
  /\ chats' = [chats EXCEPT ![calls[p].chat].last_message = calls[p].content,
                            ![calls[p].chat].last_message_time = SomeTime]
  /\ calls' = [calls EXCEPT ![p].pc = "sm_read"]
  /\ net' = ChatsChanged(net)
  /\ UNCHANGED <<quiet, page, messages, unread_counts, friend_requests, friends,
                 group_members, profiles, history>>

\* the call goes on to the participant at index i of its loop, or returns
\* message.id when the loop is over
LoopTo(c, i) ==
  IF NextOther(c.parts, i, c.user) = 0 THEN Finish(c, c.ret, "")
  ELSE [c EXCEPT !.pc = "sm_select", !.idx = NextOther(c.parts, i, c.user)]

\* from('chats').select('participants').eq('id', chatId).single()
sendMessage_read(p) ==
  /\ calls[p].pc = "sm_read"
  /\ calls' = [calls EXCEPT ![p] =
       LoopTo([@ EXCEPT !.parts = chats[calls[p].chat].participants], 1)]
  /\ UNCHANGED <<aside, page, store, history>>

\* the select of the participant's current count
sendMessage_select(p) ==
  /\ calls[p].pc = "sm_select"
  /\ calls' = [calls EXCEPT ![p].pc = "sm_write",
                            ![p].existing = SelectCount(unread_counts, calls[p].chat,
                                                        calls[p].parts[calls[p].idx])]
  /\ UNCHANGED <<aside, page, store, history>>

\* the update to existing.count + 1, or the insert of the first row
sendMessage_write(p) ==
  /\ calls[p].pc = "sm_write"
  /\ LET u == calls[p].parts[calls[p].idx] IN
       unread_counts' =
         IF calls[p].existing # NoRow
         THEN UpdateCount(unread_counts, calls[p].chat, u, calls[p].existing)
         ELSE InsertCount(unread_counts, calls[p].chat, u)
  /\ calls' = [calls EXCEPT ![p] = LoopTo([@ EXCEPT !.existing = NoRow], calls[p].idx + 1)]
  /\ UNCHANGED <<aside, page, chats, messages, friend_requests, friends, group_members,
                 profiles, history>>

\* clearUnreadCount(chatId, userId): one upsert; the record of the call keeps
\* in existing the count the upsert replaced
clearUnreadCount(p, c, u) ==
  /\ Idle(p)
  /\ c \in ChatIds
  /\ unread_counts' = UpsertZero(unread_counts, c, u)
  /\ resets' = (<<c, u>> :> Cardinality({q \in Callers :
                   Sending(q) /\ calls[q].chat = c /\ calls[q].user # u}))
               @@ resets
  /\ calls' = [calls EXCEPT ![p] =
       Finish([IdleCall EXCEPT !.op = "clearUnreadCount", !.chat = c, !.user = u,
                               !.existing = SelectCount(unread_counts, c, u)],
              0, "")]
  /\ UNCHANGED <<aside, page, chats, messages, friend_requests, friends, group_members,
                 profiles, request_ids, sends>>

\* the rows of tbl that are not of chat c, in their order
DeleteMessages(tbl, c) == SelectSeq(tbl, LAMBDA m : m.chat_id # c)

\* clearChat(chatId)
Start_clearChat(p, c) ==
  /\ Idle(p)
  /\ c \in ChatIds
  /\ calls' = [calls EXCEPT ![p] =
       [IdleCall EXCEPT !.op = "clearChat", !.pc = "cc_delete", !.chat = c]]
  /\ UNCHANGED <<aside, page, store, history>>

\* from('messages').delete().eq('chat_id', chatId)
clearChat_delete(p) ==
  /\ calls[p].pc = "cc_delete"
  /\ messages' = DeleteMessages(messages, calls[p].chat)
  /\ calls' = [calls EXCEPT ![p].pc = "cc_summary"]
  /\ UNCHANGED <<aside, page, chats, unread_counts, friend_requests, friends,
                 group_members, profiles, history>>

\* from('chats').update({ last_message: null }).eq('id', chatId)
clearChat_summary(p) ==
  /\ calls[p].pc = "cc_summary"
  /\ chats' = [chats EXCEPT ![calls[p].chat].last_message = Null]
  /\ calls' = [calls EXCEPT ![p] = Finish(@, 0, "")]
  /\ net' = ChatsChanged(net)
  /\ UNCHANGED <<quiet, page, messages, unread_counts, friend_requests, friends,
                 group_members, profiles, history>>

----------------------------------------------------------------------------
(* groups *)

IsBlank(id) == id \in {"", " "}

RECURSIVE DropBlank(_)
\* .filter(id => typeof id === 'string' && id.trim().length > 0)
DropBlank(s) ==
  IF s = <<>> THEN <<>>
  ELSE IF IsBlank(Head(s)) THEN DropBlank(Tail(s))
       ELSE <<Head(s)>> \o DropBlank(Tail(s))

\* the members without the Set: repeated ids stay
AllMembers_NoDedup(adminId, memberIds) == DropBlank(<<adminId>> \o memberIds)

\* Array.from(new Set([adminId, ...memberIds])).filter(non-blank)
AllMembers(adminId, memberIds) == DropBlank(Dedup(<<adminId>> \o memberIds))

\* the rows without the role of the creator: every row has role member
MemberRows_AllMember(c, adminId, members) ==
  {[chat_id |-> c, user_id |-> members[i], role |-> "member"] : i \in DOMAIN members}

MemberRows(c, adminId, members) ==
  {[chat_id |-> c, user_id |-> members[i],
    role |-> IF members[i] = adminId THEN "admin" ELSE "member"] : i \in DOMAIN members}

\* createGroup(name, adminId, memberIds): the validation, before any await
Start_createGroup(p, name, adminId, memberIds) ==
  /\ Idle(p)
  /\ calls' = [calls EXCEPT ![p] =
       LET c == [IdleCall EXCEPT !.op = "createGroup", !.user = adminId,
                                 !.content = name, !.members = memberIds,
                                 !.parts = AllMembers(adminId, memberIds)]
       IN IF Len(c.parts) < 2
          THEN Finish(c, 0, "Select at least 1 friend to create a group")
          ELSE [c EXCEPT !.pc = "cg_insert"]]
  /\ UNCHANGED <<aside, page, store, history>>

\* from('chats').insert({type:'group', name, participants: allMembers})
createGroup_insert(p) ==
  /\ calls[p].pc = "cg_insert"
  /\ chats' = Append(chats, NewChat("group", calls[p].content, calls[p].parts))
  /\ calls' = [calls EXCEPT ![p].pc = "cg_members", ![p].ret = Len(chats) + 1]
  /\ net' = ChatsChanged(net)
  /\ UNCHANGED <<quiet, page, messages, unread_counts, friend_requests, friends,
                 group_members, profiles, history>>

\* from('group_members').insert(allMembers.map(...))
createGroup_members(p) ==
  /\ calls[p].pc = "cg_members"
  /\ group_members' = group_members \cup
                        MemberRows(calls[p].ret, calls[p].user, calls[p].parts)
  /\ calls' = [calls EXCEPT ![p] = Finish(@, calls[p].ret, "")]
  /\ UNCHANGED <<aside, page, chats, messages, unread_counts, friend_requests, friends,
                 profiles, history>>

\* addGroupMember(chatId, userId) / removeGroupMember(chatId, userId)
Start_memberChange(p, op, c, u) ==
  /\ Idle(p)
  /\ c \in ChatIds
  /\ calls' = [calls EXCEPT ![p] =
       [IdleCall EXCEPT !.op = op, !.pc = "gm_read", !.chat = c, !.user = u]]
  /\ UNCHANGED <<aside, page, store, history>>

\* from('chats').select('participants').eq('id', chatId).single()
memberChange_read(p) ==
  /\ calls[p].pc = "gm_read"
  /\ calls' = [calls EXCEPT ![p] =
       IF calls[p].chat \in ChatIds
       THEN [@ EXCEPT !.pc = "gm_update", !.parts = chats[calls[p].chat].participants]
       ELSE Finish(@, 0, "Group not found")]
  /\ UNCHANGED <<aside, page, store, history>>

\* [...chat.participants, userId]
AddParticipant(parts, u) == Append(parts, u)

\* a removal that drops the last participant, whoever it is
RemoveParticipant_DropLast(parts, u) ==
  IF parts = <<>> THEN parts ELSE SubSeq(parts, 1, Len(parts) - 1)

\* chat.participants.filter(id => id !== userId)
RemoveParticipant(parts, u) == Filter(parts, u)

\* from('chats').update({participants}).eq('id', chatId)
memberChange_update(p) ==
  /\ calls[p].pc = "gm_update"
  /\ chats' = [chats EXCEPT ![calls[p].chat].participants =
       IF calls[p].op = "addGroupMember"
       THEN AddParticipant(calls[p].parts, calls[p].user)
       ELSE RemoveParticipant(calls[p].parts, calls[p].user)]
  /\ calls' = [calls EXCEPT ![p].pc = "gm_member"]
  /\ net' = ChatsChanged(net)
  /\ UNCHANGED <<quiet, page, messages, unread_counts, friend_requests, friends,
                 group_members, profiles, history>>

MemberRowsOf(tbl, c, u) == {r \in tbl : r.chat_id = c /\ r.user_id = u}

\* group_members: insert({chat_id, user_id, role:'member'}), which fails
\* under UNIQUE(chat_id, user_id) when the row exists; or
\* delete().eq('chat_id', chatId).eq('user_id', userId)
memberChange_member(p) ==
  /\ calls[p].pc = "gm_member"
  /\ group_members' =
       IF calls[p].op = "addGroupMember"
       THEN IF MemberRowsOf(group_members, calls[p].chat, calls[p].user) # {}
            THEN group_members
            ELSE group_members \cup
                   {[chat_id |-> calls[p].chat, user_id |-> calls[p].user,
                     role |-> "member"]}
       ELSE group_members \ MemberRowsOf(group_members, calls[p].chat, calls[p].user)
  /\ calls' = [calls EXCEPT ![p] = Finish(@, 0, "")]
  /\ UNCHANGED <<aside, page, chats, messages, unread_counts, friend_requests, friends,
                 profiles, history>>

----------------------------------------------------------------------------
(* The Chat page (pages/Chat.tsx) of the user PageUser, fed by useChats *)

PageUser == "B"

\* the AuthProvider before any sign-in: firebaseUser and user are null;
\* setups holds the setupPresence calls the sign-in code has yet to reach,
\* writes the setUserPresence requests sent and not yet applied by the
\* store, awaited the request signOut waits for, signedOut the user of the
\* last completed signOut
NewSession ==
  [firebaseUser |-> Null, user |-> Null, pc |-> "out", setups |-> {},
   writes |-> {}, issued |-> 0, awaited |-> 0, signIns |-> 0, signedOut |-> Null]

\* nobody is subscribed, no fetch and no change event is on its way
NewNet ==
  [watching |-> Null, chatsOf |-> Null, fetches |-> {}, events |-> <<>>,
   started |-> 0]

\* the collection chats holding one dm chat of A and B, nobody has unread
\* messages; messages counts the documents of the subcollection messages
NewFirestore ==
  <<[type |-> "dm", participants |-> <<"A", "B">>, unreadCounts |-> <<>>,
     lastMessage |-> Null, messages |-> 0]>>

\* the hooks when they mount: useTypingIndicator holds no typing user (at
\* is the store time of the last fetch), useMessages no message (list holds
\* the positions of the delivered rows in public.messages), usePresence
\* holds false, useChats no chat
NewHooks ==
  [typingUsers |-> [chat_id |-> 0, users |-> {}, at |-> 0],
   messages |-> [chat_id |-> 0, list |-> <<>>],
   isOnline |-> FALSE,
   chats |-> <<>>]

\* the page when it mounts: no chat selected, no chat list received;
\* issued holds the chats of the clearUnreadCount calls that were issued and
\* have not reached the store, notified those the last run of the chats
\* effect fired a notification for
NewPage ==
  [selected |-> 0, chats |-> <<>>, prev |-> <<>>, pending |-> 0,
   notified |-> {}, issued |-> {}]

\* what subscribeToChats(u, cb) passes to cb, as useChats keeps it: the chats
\* that contain u, each with unreadCount = unreadData?.count || 0
ChatList(u) ==
  [c \in {d \in ChatIds : Contains(chats[d].participants, u)} |-> UnreadCount(c, u)]

UnreadIn(list, c) == IF c \in DOMAIN list THEN list[c] ELSE 0

\* the effect without the comparison with the selected chat
ChatsEffect_AnyChat(pg, list) ==
  LET found == pg.pending # 0 /\ pg.pending \in DOMAIN list
  IN [pg EXCEPT
        !.chats = list,
        !.selected = IF found THEN pg.pending ELSE @,
        !.issued = IF found THEN @ \cup {pg.pending} ELSE @,
        !.pending = IF found THEN 0 ELSE @,
        !.notified = IF DOMAIN pg.prev # {}
                     THEN {c \in DOMAIN list : list[c] > UnreadIn(pg.prev, c)}
                     ELSE {},
        !.prev = list]

\* the effect of the page on [chats, ...]: the pending selection is taken up
\* (with its clearUnreadCount) once its chat is in the list, a notification
\* is fired for the chats whose unread count grew and that are not the
\* selected chat, and the list becomes the previous list
ChatsEffect(pg, list) ==
  LET found == pg.pending # 0 /\ pg.pending \in DOMAIN list
  IN [pg EXCEPT
        !.chats = list,
        !.selected = IF found THEN pg.pending ELSE @,
        !.issued = IF found THEN @ \cup {pg.pending} ELSE @,
        !.pending = IF found THEN 0 ELSE @,
        !.notified = IF DOMAIN pg.prev # {}
                     THEN {c \in DOMAIN list :
                             list[c] > UnreadIn(pg.prev, c) /\ pg.selected # c}
                     ELSE {},
        !.prev = list]

\* the callback of subscribeToChats delivers the list, and the effect runs
Page_chatsUpdate ==
  /\ page' = ChatsEffect(page, ChatList(PageUser))
  /\ UNCHANGED <<aside, store, history, calls>>

\* handleSelectChat(chat), for a chat of the list shown
handleSelectChat(c) ==
  /\ c \in DOMAIN page.chats
  /\ page' = [page EXCEPT !.selected = c, !.issued = @ \cup {c}]
  /\ UNCHANGED <<aside, store, history, calls>>

\* handleSelectChatById(chatId)
handleSelectChatById(c) ==
  /\ page' = IF c \in DOMAIN page.chats
             THEN [page EXCEPT !.selected = c, !.issued = @ \cup {c}]
             ELSE [page EXCEPT !.pending = c]
  /\ UNCHANGED <<aside, store, history, calls>>

\* a clearUnreadCount(chat.id, user.id) the page issued reaches the store
Page_clearUnreadCount(c) ==
  /\ c \in page.issued
  /\ unread_counts' = UpsertZero(unread_counts, c, PageUser)
  /\ page' = [page EXCEPT !.issued = @ \ {c}]
  /\ UNCHANGED <<aside, chats, messages, friend_requests, friends, group_members,
                 profiles, history, calls>>

----------------------------------------------------------------------------
(* Initial state: the users have signed in (each has its profile row), the *)
(* other tables are empty, no call is in flight                            *)

Init ==
  /\ chats = <<>>
  /\ messages = <<>>
  /\ unread_counts = {}
  /\ friend_requests = {}
  /\ friends = <<>>
  /\ group_members = {}
  /\ profiles = {[firebase_uid |-> u, username |-> Username(u),
                  nickname |-> Username(u)] : u \in Users}
  /\ request_ids = 0
  /\ sends = <<>>
  /\ resets = <<>>
  /\ calls = [p \in Callers |-> IdleCall]
  /\ page = NewPage
  /\ typing_status = {}
  /\ clock = 0
  /\ hooks = NewHooks
  /\ user_presence = {}
  /\ session = NewSession
  /\ net = NewNet
  /\ firestore = NewFirestore

\* the store after getOrCreateDMChat("A", "B")
InitGroup ==
  /\ chats = <<NewChat("dm", Null, <<"A", "B">>)>>
  /\ messages = <<>>
  /\ unread_counts = {}
  /\ friend_requests = {}
  /\ friends = <<>>
  /\ group_members = {}
  /\ profiles = {[firebase_uid |-> u, username |-> Username(u),
                  nickname |-> Username(u)] : u \in Users}
  /\ request_ids = 0
  /\ sends = <<>>
  /\ resets = <<>>
  /\ calls = [p \in Callers |-> IdleCall]
  /\ page = NewPage
  /\ typing_status = {}
  /\ clock = 0
  /\ hooks = NewHooks
  /\ user_presence = {}
  /\ session = NewSession
  /\ net = NewNet
  /\ firestore = NewFirestore

----------------------------------------------------------------------------
(* Concurrent getOrCreateDMChat calls of distinct users *)

NextDM ==
  \E p \in Callers :
    \/ /\ ChatRoom
       /\ \E u1 \in Users : \E u2 \in Users \ {u1} : Start_getOrCreateDMChat(p, u1, u2)
    \/ getOrCreateDMChat_query(p)
    \/ getOrCreateDMChat_insert(p)
    \/ Return(p)

SpecDM == Init /\ [][NextDM]_vars

----------------------------------------------------------------------------
(* The friend-request workflow *)

\* the requests the concurrent clients send: A and B to each other, and A to
\* themselves (the service does not refuse it)
FriendPairs == {<<"A", "B">>, <<"B", "A">>, <<"A", "A">>}

\* the receiver accepts or rejects a request of the pending list
AnswerRequest(p) ==
  \/ ChatRoom /\ \E q \in friend_requests : Start_acceptFriendRequest(p, q)
  \/ \E q \in friend_requests : rejectFriendRequest(p, q)

StepFriends(p) ==
  \/ sendFriendRequest_sender(p)
  \/ sendFriendRequest_existing(p)
  \/ sendFriendRequest_friends(p)
  \/ sendFriendRequest_insert(p)
  \/ acceptFriendRequest_delete(p)
  \/ acceptFriendRequest_insert(p)
  \/ getOrCreateDMChat_query(p)
  \/ getOrCreateDMChat_insert(p)
  \/ Return(p)

\* calls of several clients, interleaved at every store operation; a second
\* acceptFriendRequest of a request is the call of another client that read
\* the pending list before the first call deleted the row
NextFriends ==
  \E p \in Callers :
    \/ RequestRoom /\ \E d \in FriendPairs : Start_sendFriendRequest(p, d[1], d[2])
    \/ AnswerRequest(p)
    \/ StepFriends(p)

SpecFriends == Init /\ [][NextFriends]_vars

\* the client of the specifications that run one call at a time: a call
\* starts once the call before it has returned
Client == CHOOSE p \in Callers : TRUE

\* one call at a time, of any user to any user, the second call of
\* acceptFriendRequest with the arguments of the first, and the request
\* sent again after its rejection
NextSeqFriends ==
  \/ RequestRoom /\ \E s \in Users, r \in Users : Start_sendFriendRequest(Client, s, r)
  \/ AnswerRequest(Client)
  \/ ChatRoom /\ Retry_acceptFriendRequest(Client)
  \/ request_ids <= MaxRequests /\ Again_sendFriendRequest(Client)
  \/ StepFriends(Client)

SpecSeqFriends == Init /\ [][NextSeqFriends]_vars

\* concurrent clients as in NextFriends, where a sendFriendRequest may also
\* start once the table has received its rows (the calls in flight then
\* insert the last ones)
NextRequests ==
  \E p \in Callers :
    \/ /\ request_ids <= MaxRequests
       /\ \E d \in FriendPairs : Start_sendFriendRequest(p, d[1], d[2])
    \/ AnswerRequest(p)
    \/ StepFriends(p)

SpecRequests == Init /\ [][NextRequests]_vars

----------------------------------------------------------------------------
(* Concurrent sendMessage and clearUnreadCount calls on one chat; a user    *)
(* has one sendMessage in flight at a time                                 *)

\* the store once the first chat exists: the group of A with B and C
\* (createGroup("team", A, [B, C])), or the dm chat of A and B
InitUnread ==
  /\ \/ /\ chats = <<NewChat("group", "team", AllMembers("A", <<"B", "C">>))>>
        /\ group_members = MemberRows(1, "A", AllMembers("A", <<"B", "C">>))
     \/ /\ chats = <<NewChat("dm", Null, <<"A", "B">>)>>
        /\ group_members = {}
  /\ messages = <<>>
  /\ unread_counts = {}
  /\ friend_requests = {}
  /\ friends = <<>>
  /\ profiles = {[firebase_uid |-> u, username |-> Username(u),
                  nickname |-> Username(u)] : u \in Users}
  /\ request_ids = 0
  /\ sends = <<>>
  /\ resets = <<>>
  /\ calls = [p \in Callers |-> IdleCall]
  /\ page = NewPage
  /\ typing_status = {}
  /\ clock = 0
  /\ hooks = NewHooks
  /\ user_presence = {}
  /\ session = NewSession
  /\ net = NewNet
  /\ firestore = NewFirestore

StepMessages(p) ==
  \/ sendMessage_insert(p)
  \/ sendMessage_summary(p)
  \/ sendMessage_read(p)
  \/ sendMessage_select(p)
  \/ sendMessage_write(p)

NextUnread ==
  \E p \in Callers :
    \/ \E c \in ChatIds : \E s \in Range(chats[c].participants) :
         /\ ~\E q \in Callers : Sending(q) /\ calls[q].user = s
         /\ MessageRoom
         /\ \E content \in Contents : Start_sendMessage(p, c, s, content)
    \/ \E c \in ChatIds : \E u \in Range(chats[c].participants) :
         clearUnreadCount(p, c, u)
    \/ StepMessages(p)
    \/ Return(p)

SpecUnread == InitUnread /\ [][NextUnread]_vars

----------------------------------------------------------------------------
(* Direct chats and messages, one call at a time: A opens a chat with B or *)
(* with C, B opens one with A, and any user sends to any chat              *)

DMStarts == {<<"A", "B">>, <<"B", "A">>, <<"A", "C">>}

NextSeqMsg ==
  \/ \E d \in DMStarts : Start_getOrCreateDMChat(Client, d[1], d[2])
  \/ MessageRoom /\ \E c \in ChatIds, s \in Users, content \in Contents :
                      Start_sendMessage(Client, c, s, content)
  \/ getOrCreateDMChat_query(Client)
  \/ getOrCreateDMChat_insert(Client)
  \/ StepMessages(Client)
  \/ Return(Client)

SpecSeqMsg == Init /\ [][NextSeqMsg]_vars

----------------------------------------------------------------------------
(* useSendMessage: a participant sends what the input holds, one call at a *)
(* time; nothing on the way to sendMessage looks at the content            *)

Drafts == {"hi", "", " "}

NextSend ==
  \/ MessageRoom /\ \E c \in ChatIds : \E s \in Range(chats[c].participants) :
                      \E content \in Drafts : Start_sendMessage(Client, c, s, content)
  \/ StepMessages(Client)
  \/ Return(Client)

SpecSend == InitUnread /\ [][NextSend]_vars

----------------------------------------------------------------------------
(* The Chat page of B while A sends to the dm chat of A and B, one          *)
(* operation at a time: a send starts once the clearUnreadCount calls of    *)
(* the page have reached the store, and the page receives its list, the     *)
(* user acts and the clearUnreadCount calls are applied between the sends   *)

NextPage ==
  \/ /\ page.issued = {} /\ MessageRoom
     /\ \E c \in ChatIds : \E s \in Range(chats[c].participants) \ {PageUser} :
          Start_sendMessage(Client, c, s, "hi")
  \/ StepMessages(Client)
  \/ Return(Client)
  \/ Idle(Client) /\ Page_chatsUpdate
  \/ Idle(Client) /\ \E c \in ChatIds : handleSelectChat(c)
  \/ Idle(Client) /\ \E c \in 1..MaxChats : handleSelectChatById(c)
  \/ Idle(Client) /\ \E c \in ChatIds : Page_clearUnreadCount(c)

SpecPage == InitGroup /\ [][NextPage]_vars

----------------------------------------------------------------------------
(* Chats, messages and clearChat, one call at a time *)

RECURSIVE SumOf(_, _)
SumOf(f, D) ==
  IF D = {} THEN 0
  ELSE LET k == CHOOSE x \in D : TRUE IN f[k] + SumOf(f, D \ {k})

\* the sendMessage calls started so far
SendsStarted == SumOf(sends, DOMAIN sends)

NextClear ==
  \/ \E d \in DMStarts : Start_getOrCreateDMChat(Client, d[1], d[2])
  \/ SendsStarted < MaxMessages
       /\ \E c \in ChatIds, s \in Users, content \in Contents :
            Start_sendMessage(Client, c, s, content)
  \/ getOrCreateDMChat_query(Client)
  \/ getOrCreateDMChat_insert(Client)
  \/ StepMessages(Client)
  \/ Return(Client)
  \/ \E c \in ChatIds : Start_clearChat(Client, c)
  \/ clearChat_delete(Client)
  \/ clearChat_summary(Client)

SpecClear == Init /\ [][NextClear]_vars

----------------------------------------------------------------------------
(* Groups and their members, one call at a time, in a store that holds the  *)
(* dm chat of A and B; the members added and removed are those of groups   *)

GroupIds == {c \in ChatIds : chats[c].type = "group"}

GroupNames == {"team"}
MemberLists == {<<>>, <<"C">>, <<"B", "C">>, <<"C", "", "C">>}

\* the participants list of the chat, with the additions in flight, has room
MemberRoom(c) ==
  Len(chats[c].participants)
    + Cardinality({q \in Callers : calls[q].op = "addGroupMember"
                                   /\ calls[q].pc \in {"gm_read", "gm_update"}
                                   /\ calls[q].chat = c}) < MaxMembers

GroupRoom ==
  Cardinality(GroupIds) + Cardinality({q \in Callers : calls[q].pc = "cg_insert"}) < MaxGroups

NextGroup ==
  \/ GroupRoom /\ \E n \in GroupNames, a \in Users, m \in MemberLists :
                    Start_createGroup(Client, n, a, m)
  \/ \E c \in GroupIds, u \in Users :
       MemberRoom(c) /\ Start_memberChange(Client, "addGroupMember", c, u)
  \/ \E c \in GroupIds, u \in Users :
       Start_memberChange(Client, "removeGroupMember", c, u)
  \/ createGroup_insert(Client)
  \/ createGroup_members(Client)
  \/ memberChange_read(Client)
  \/ memberChange_update(Client)
  \/ memberChange_member(Client)
  \/ Return(Client)

SpecGroup == InitGroup /\ [][NextGroup]_vars

----------------------------------------------------------------------------
(* Concurrent sendMessage and clearUnreadCount calls of the participants of *)
(* the dm chat of A and B; a user has one sendMessage in flight at a time   *)

NextCounters ==
  \E p \in Callers :
    \/ \E c \in ChatIds : \E s \in Range(chats[c].participants) :
         /\ ~\E q \in Callers : Sending(q) /\ calls[q].user = s
         /\ MessageRoom
         /\ Start_sendMessage(p, c, s, "hi")
    \/ \E c \in ChatIds : \E u \in Range(chats[c].participants) :
         clearUnreadCount(p, c, u)
    \/ StepMessages(p)
    \/ Return(p)

SpecCounters == InitGroup /\ [][NextCounters]_vars

----------------------------------------------------------------------------
(* ======================= The claims ======================= *)

\* the dm chats whose participants are exactly the users a and b
DMChatsOf(a, b) ==
  {i \in DOMAIN chats : chats[i].type = "dm" /\ Range(chats[i].participants) = {a, b}}

IsDMCall(p) == calls[p].op = "getOrCreateDMChat" /\ Done(p)

\* C1: two getOrCreateDMChat calls for the same pair of distinct users, in
\* either argument order and under any interleaving, return the same chat id
\* and leave exactly one dm chat of that pair.
C1_ConcurrentDMOneChat ==
  \A p, q \in Callers :
    (/\ IsDMCall(p) /\ IsDMCall(q)
     /\ {calls[p].user, calls[p].other} = {calls[q].user, calls[q].other})
    => /\ calls[p].ret = calls[q].ret
       /\ Cardinality(DMChatsOf(calls[p].user, calls[p].other)) = 1

----------------------------------------------------------------------------
NumFriendRows(u, f) == Cardinality(FriendRows(friends, u, f))

\* an acceptFriendRequest(requestId, u, f) of distinct users has returned
AcceptDone(p) ==
  /\ calls[p].op = "acceptFriendRequest"
  /\ Done(p)
  /\ calls[p].user # calls[p].other

\* C4: acceptFriendRequest called a second time with the same arguments,
\* after the first call returned, returns the chat id the first call
\* returned, and one friends row (u,f) and one friends row (f,u) exist.
C4_AcceptIdempotent ==
  \A p \in Callers :
    (AcceptDone(p) /\ calls[p].retried)
    => /\ calls[p].ret = calls[p].first
       /\ calls[p].err = ""
       /\ NumFriendRows(calls[p].user, calls[p].other) = 1
       /\ NumFriendRows(calls[p].other, calls[p].user) = 1

C4_Witness ==
  \E p \in Callers : AcceptDone(p) /\ calls[p].retried /\ calls[p].ret # 0

\* C5: friend_requests never holds two pending rows of the same ordered
\* (sender, receiver) pair.
C5_OnePendingPerPair ==
  \A s \in Users, r \in Users :
    Cardinality({q \in RequestsOf(s, r) : q.status = "pending"}) <= 1

\* C6: the friends table is symmetric and holds no self-edge, whatever
\* requests (a request of a user to themselves included) were sent, accepted
\* and rejected.
C6_FriendsSymmetricNoSelf ==
  \A i \in DOMAIN friends :
    /\ friends[i].user_id # friends[i].friend_id
    /\ FriendRows(friends, friends[i].friend_id, friends[i].user_id) # {}

\* a request of a user to themselves was accepted, and two users are friends
C6_Witness ==
  /\ \E p \in Callers : /\ calls[p].op = "acceptFriendRequest" /\ Done(p)
                        /\ calls[p].user = calls[p].other
  /\ friends # <<>>

\* C7: once the receiver's acceptFriendRequest of a request between two
\* users has returned, the request row is gone, exactly the two friends rows
\* of the pair exist, and one dm chat of the pair exists (no message was
\* sent: the workflow sends none).
C7_AcceptScenario ==
  \A p \in Callers :
    AcceptDone(p)
    => /\ \A q \in friend_requests : q.id # calls[p].req
       /\ NumFriendRows(calls[p].user, calls[p].other) = 1
       /\ NumFriendRows(calls[p].other, calls[p].user) = 1
       /\ Cardinality(DMChatsOf(calls[p].user, calls[p].other)) = 1
       /\ calls[p].ret \in DMChatsOf(calls[p].user, calls[p].other)
       /\ messages = <<>>

\* the first acceptance of a request between two users who were not friends
C7_Witness ==
  \E p \in Callers :
    /\ AcceptDone(p) /\ ~calls[p].retried
    /\ Len(friends) = 2 /\ Len(chats) = 1

----------------------------------------------------------------------------
SendsOf(c, s) == IF <<c, s>> \in DOMAIN sends THEN sends[<<c, s>>] ELSE 0

RECURSIVE SendsBy(_, _)
\* the sendMessage calls to chat c started by the users of S
SendsBy(c, S) ==
  IF S = {} THEN 0
  ELSE LET s == CHOOSE x \in S : TRUE IN SendsOf(c, s) + SendsBy(c, S \ {s})

\* a sendMessage call to c of a user other than u is in flight
SendingTo(c, u) ==
  \E q \in Callers : Sending(q) /\ calls[q].chat = c /\ calls[q].user # u

\* C2: for a participant p who never called clearUnreadCount for chat c, once
\* the sendMessage calls to c of the other participants have all returned,
\* p's unread count for c is the number of those calls.
C2_UnreadIsNumberOfSends ==
  \A c \in ChatIds : \A u \in Range(chats[c].participants) :
    (<<c, u>> \notin DOMAIN resets /\ ~SendingTo(c, u))
    => UnreadCount(c, u) = SendsBy(c, Users \ {u})

\* C3: after clearUnreadCount(c, p), p's unread count for c is at most the
\* number of sendMessage calls of others that were in flight at the reset or
\* started after it.
C3_ResetNotOverwritten ==
  \A k \in DOMAIN resets : UnreadCount(k[1], k[2]) <= resets[k]

----------------------------------------------------------------------------
MessagesOf(c) == {i \in DOMAIN messages : messages[i].chat_id = c}

\* the call p is a returned sendMessage of a participant of a dm chat, and
\* the only send that chat ever had
FirstDMSend(p) ==
  /\ calls[p].op = "sendMessage"
  /\ Done(p)
  /\ chats[calls[p].chat].type = "dm"
  /\ Contains(chats[calls[p].chat].participants, calls[p].user)
  /\ SendsBy(calls[p].chat, Users) = 1

\* C8: after a user opened a dm chat with another user and sent one message
\* to it, one dm chat of the pair exists, it holds that one message row, the
\* other user's unread count is 1 and the sender's is 0.
C8_FirstMessageScenario ==
  \A p \in Callers :
    FirstDMSend(p)
    => LET c == calls[p].chat
           a == calls[p].user
       IN \A b \in Range(chats[c].participants) \ {a} :
            /\ Cardinality(DMChatsOf(a, b)) = 1
            /\ MessagesOf(c) = {calls[p].ret}
            /\ messages[calls[p].ret].sender_id = a
            /\ messages[calls[p].ret].content = calls[p].content
            /\ UnreadCount(c, b) = 1
            /\ UnreadCount(c, a) = 0

\* A sent "hi" to the dm chat that getOrCreateDMChat(A, B) created
C8_Witness ==
  \E p \in Callers :
    /\ FirstDMSend(p)
    /\ calls[p].user = "A" /\ calls[p].content = "hi"
    /\ chats[calls[p].chat].participants = <<"A", "B">>

\* C9: the first store operation of a sendMessage whose sender is not a
\* participant of the chat ends the call as Unauthorized, and changes neither
\* messages, nor the chat's summary, nor an unread counter.
C9_NonParticipantRejected ==
  [][\A p \in Callers :
       (/\ calls[p].pc = "sm_insert"
        /\ calls'[p].pc # "sm_insert"
        /\ ~Contains(chats[calls[p].chat].participants, calls[p].user))
       => /\ calls'[p].pc = "done"
          /\ calls'[p].err = "Unauthorized"
          /\ messages' = messages
          /\ chats' = chats
          /\ unread_counts' = unread_counts]_vars

----------------------------------------------------------------------------
\* the indices of the members of old that are not u
KeptIndices(old, u) == {i \in DOMAIN old : old[i] # u}

\* new is old without u: the other members, each at its rank among them
IsWithout(new, old, u) ==
  /\ Len(new) = Cardinality(KeptIndices(old, u))
  /\ \A i \in KeptIndices(old, u) :
       new[Cardinality({j \in KeptIndices(old, u) : j <= i})] = old[i]

\* C10: the update of removeGroupMember(chatId, u) leaves the chat's
\* participants without u and with the other members in their order
\* ([A,B,C] without B is [A,C]), and changes no other chat's participants.
C10_RemoveGroupMember ==
  [][\A p \in Callers :
       (/\ calls[p].op = "removeGroupMember"
        /\ calls[p].pc = "gm_update"
        /\ calls'[p].pc = "gm_member")
       => LET c == calls[p].chat
              u == calls[p].user
          IN /\ Len(chats') = Len(chats)
             /\ IsWithout(chats'[c].participants, chats[c].participants, u)
             /\ (chats[c].participants = <<"A", "B", "C">> /\ u = "B")
                  => chats'[c].participants = <<"A", "C">>
             /\ \A d \in ChatIds \ {c} :
                  chats'[d].participants = chats[d].participants]_vars

\* B was removed from the group [A,B,C]
C10_Witness ==
  \E p \in Callers :
    /\ calls[p].op = "removeGroupMember" /\ Done(p)
    /\ calls[p].user = "B"
    /\ calls[p].parts = <<"A", "B", "C">>
    /\ chats[calls[p].chat].participants = <<"A", "C">>

----------------------------------------------------------------------------
\* C11: no message row has an empty or whitespace-only content: a send of
\* such a content is rejected before the insert.
C11_NoEmptyMessage ==
  \A i \in DOMAIN messages : ~IsBlank(messages[i].content)

----------------------------------------------------------------------------
PendingOf(s, r) == {q \in RequestsOf(s, r) : q.status = "pending"}

FriendEdge(s, r) ==
  FriendRows(friends, s, r) # {} \/ FriendRows(friends, r, s) # {}

\* C12: the check of sendFriendRequest(s, r) for an existing request ends
\* the call with 'Request already sent' when a pending request (s, r)
\* exists, its check for a friendship ends it with 'Already friends' when a
\* friend edge of s and r exists, both leaving the store unchanged; and its
\* insert adds exactly one pending row (s, r).
C12_SendFriendRequestOutcomes ==
  [][\A p \in Callers :
       LET s == calls[p].user
           r == calls[p].other
       IN /\ (/\ calls[p].pc = "fr_existing" /\ calls'[p].pc # "fr_existing"
               /\ PendingOf(s, r) # {})
              => /\ calls'[p].pc = "done"
                 /\ calls'[p].err = "Request already sent"
                 /\ store' = store
          /\ (/\ calls[p].pc = "fr_friends" /\ calls'[p].pc # "fr_friends"
               /\ FriendEdge(s, r))
              => /\ calls'[p].pc = "done"
                 /\ calls'[p].err = "Already friends"
                 /\ store' = store
          /\ (calls[p].pc = "fr_insert" /\ calls'[p].pc # "fr_insert")
              => /\ calls'[p].err = ""
                 /\ \E q \in friend_requests' \ friend_requests :
                      /\ friend_requests' = friend_requests \cup {q}
                      /\ q.sender_id = s /\ q.receiver_id = r
                      /\ q.status = "pending"]_vars

\* a sendFriendRequest(s, r) that followed the rejection of a request of s
\* to r has returned
RequestedAgain(p) ==
  calls[p].op = "sendFriendRequest" /\ Done(p) /\ calls[p].retried

\* C13: the sendFriendRequest(s, r) that follows the rejectFriendRequest of
\* a pending request of s to r succeeds and leaves a pending row (s, r).
C13_RequestAfterReject ==
  \A p \in Callers :
    RequestedAgain(p)
    => /\ calls[p].err = ""
       /\ PendingOf(calls[p].user, calls[p].other) # {}

\* C14: no pending request (s, r) exists while a friend edge of s and r
\* exists, also once one of two mutual requests was accepted.
C14_NoPendingBetweenFriends ==
  \A q \in friend_requests :
    q.status = "pending" => ~FriendEdge(q.sender_id, q.receiver_id)

----------------------------------------------------------------------------
\* the distinct non-blank member ids of a createGroup call, the creator apart
OtherMembers(p) == {x \in Range(calls[p].members) : ~IsBlank(x)} \ {calls[p].user}

\* C15: a createGroup call whose member ids, once deduplicated and without
\* the blank ids, hold no member other than the creator ends with the
\* validation error and inserts neither a chat nor group_members rows; any
\* other call inserts one group chat whose participants are the creator and
\* the distinct members, each once, and one group_members row for each.
C15_CreateGroupMembers ==
  [][\A p \in Callers :
       calls'[p].op = "createGroup"
       => LET a == calls'[p].user
              D == {x \in Range(calls'[p].members) : ~IsBlank(x)} \ {a}
          IN /\ D = {}
                => /\ calls'[p].pc = "done"
                   /\ calls'[p].err = "Select at least 1 friend to create a group"
                   /\ chats' = chats
                   /\ group_members' = group_members
             /\ (D # {} /\ calls[p].pc = "cg_insert" /\ calls'[p].pc # "cg_insert")
                => /\ Len(chats') = Len(chats) + 1
                   /\ SubSeq(chats', 1, Len(chats)) = chats
                   /\ chats'[Len(chats')].type = "group"
                   /\ Range(chats'[Len(chats')].participants) = {a} \cup D
                   /\ Len(chats'[Len(chats')].participants) = Cardinality({a} \cup D)
                   /\ calls'[p].ret = Len(chats')
             /\ (D # {} /\ calls[p].pc = "cg_members" /\ calls'[p].pc # "cg_members")
                => /\ calls'[p].pc = "done" /\ calls'[p].err = ""
                   /\ {r.user_id : r \in {x \in group_members' : x.chat_id = calls'[p].ret}}
                        = {a} \cup D
                   /\ Cardinality({x \in group_members' : x.chat_id = calls'[p].ret})
                        = Cardinality({a} \cup D)]_vars

\* a group was created from member ids that repeat an id and hold a blank one
C15_Witness ==
  \E p \in Callers :
    /\ calls[p].op = "createGroup" /\ Done(p)
    /\ calls[p].members = <<"C", "", "C">>
    /\ calls[p].err = ""
    /\ chats[calls[p].ret].participants = <<calls[p].user, "C">>

----------------------------------------------------------------------------
\* C16: clearChat(c) deletes the message rows of c and no other, sets the
\* last message and the last message time of c to null, and changes neither
\* an unread counter nor the participants of c.
C16_ClearChat ==
  [][\A p \in Callers :
       LET c == calls[p].chat IN
       /\ (calls[p].pc = "cc_delete" /\ calls'[p].pc # "cc_delete")
          => /\ MessagesOf(c) # {} => messages' # messages
             /\ \A i \in DOMAIN messages' : messages'[i].chat_id # c
             /\ \A d \in ChatIds \ {c} :
                  SelectSeq(messages', LAMBDA m : m.chat_id = d)
                    = SelectSeq(messages, LAMBDA m : m.chat_id = d)
             /\ unread_counts' = unread_counts
             /\ chats' = chats
       /\ (calls[p].pc = "cc_summary" /\ calls'[p].pc # "cc_summary")
          => /\ calls'[p].pc = "done"
             /\ chats'[c].last_message = Null
             /\ chats'[c].last_message_time = Null
             /\ chats'[c].participants = chats[c].participants
             /\ \A d \in ChatIds \ {c} : chats'[d] = chats[d]
             /\ unread_counts' = unread_counts
             /\ messages' = messages]_vars

----------------------------------------------------------------------------
\* the rows of unread_counts other than the row of chat c and user u
OtherCounters(tbl, c, u) == tbl \ UnreadRows(tbl, c, u)

\* C17: clearUnreadCount(c, u) leaves one row of (c, u), with count 0,
\* whatever the count was and whether the row existed, and changes no other
\* row; and every stored count is a non-negative integer.
C17_ClearUnreadCount ==
  /\ [](\A r \in unread_counts : r.count \in Nat)
  /\ [][\A p \in Callers :
         (calls[p].pc = "idle" /\ calls'[p].op = "clearUnreadCount")
         => LET c == calls'[p].chat
                u == calls'[p].user
            IN /\ UnreadRows(unread_counts', c, u)
                    = {[chat_id |-> c, user_id |-> u, count |-> 0]}
               /\ OtherCounters(unread_counts', c, u)
                    = OtherCounters(unread_counts, c, u)]_vars

\* a clearUnreadCount replaced a positive count while the other
\* participant's counter is positive too
C17_Witness ==
  \E p \in Callers :
    /\ calls[p].op = "clearUnreadCount" /\ Done(p)
    /\ calls[p].existing >= 1
    /\ UnreadCount(calls[p].chat, calls[p].user) = 0
    /\ \E r \in unread_counts : r.user_id # calls[p].user /\ r.count >= 1

----------------------------------------------------------------------------
\* the page has received the current chat list, no send is in flight and no
\* clearUnreadCount of the page is on its way
PageSettled ==
  /\ \A p \in Callers : Idle(p)
  /\ page.issued = {}
  /\ page.chats = ChatList(PageUser)

\* C18: while a chat stays selected, the page clears its unread count when
\* it is opened and again after every chats update that brings a new message
\* of it: once everything has settled, the stored unread count of the
\* selected chat is 0.
C18_OpenChatStaysRead ==
  (PageSettled /\ page.selected # 0)
  => UnreadCount(page.selected, PageUser) = 0

----------------------------------------------------------------------------
(* Typing indicators: public.typing_status has one row per (chat_id,       *)
(* user_id); updated_at is now() on insert and set to now() by the         *)
(* update trigger                                                          *)

\* the staleness bound of a typing flag and the end of the modelled time,
\* both in debounce intervals
StaleAfter == 2
MaxClock == 4

\* .upsert({chat_id, user_id, is_typing}, {onConflict: 'chat_id,user_id'})
UpsertTyping(tbl, c, u, b, now) ==
  {r \in tbl : ~(r.chat_id = c /\ r.user_id = u)}
    \cup {[chat_id |-> c, user_id |-> u, is_typing |-> b, updated_at |-> now]}

\* setTypingStatus(chatId, userId, isTyping): the one upsert, its error ignored
setTypingStatus(c, u, b) ==
  /\ c \in ChatIds
  /\ typing_status' = UpsertTyping(typing_status, c, u, b, clock)
  /\ UNCHANGED <<page, store, history, calls, clock, hooks, beside>>

\* the query of fetchTyping in subscribeToTypingStatus(chatId, currentUserId):
\* the user_id of the rows of the chat, of another user, with is_typing true
fetchTyping(c, cur) ==
  {r.user_id : r \in {t \in typing_status :
                        t.chat_id = c /\ t.user_id # cur /\ t.is_typing}}

\* subscribeToTypingStatus(chatId, currentUserId, setTypingUsers): the fetch
\* made on subscription and on each change of the table, and its callback
subscribeToTypingStatus(c, cur) ==
  /\ c \in ChatIds
  /\ hooks' = [hooks EXCEPT !.typingUsers =
                 [chat_id |-> c, users |-> fetchTyping(c, cur), at |-> clock]]
  /\ UNCHANGED <<page, store, history, calls, typing_status, clock, beside>>

\* a debounce interval passes
Tick ==
  /\ clock < MaxClock
  /\ clock' = clock + 1
  /\ UNCHANGED <<page, store, history, calls, typing_status, hooks, beside>>

NextTyping ==
  \/ \E c \in ChatIds : \E u \in Users : \E b \in BOOLEAN : setTypingStatus(c, u, b)
  \/ \E c \in ChatIds : \E u \in Users : subscribeToTypingStatus(c, u)
  \/ Tick

SpecTyping == InitGroup /\ [][NextTyping]_vars

\* C19: a delivery of subscribeToTypingStatus holds no user whose flag is
\* true and was last written longer ago than the staleness bound
C19_StaleTypingExcluded ==
  [][hooks'.typingUsers # hooks.typingUsers =>
       \A r \in typing_status :
         (/\ r.chat_id = hooks'.typingUsers.chat_id
          /\ r.is_typing
          /\ clock - r.updated_at > StaleAfter)
           => r.user_id \notin hooks'.typingUsers.users]_vars

----------------------------------------------------------------------------
(* subscribeToMessages: the list a subscriber of a chat is given, as one   *)
(* participant sends message after message                                 *)

MessageLimit == 100   \* .limit(100)
MaxHistory == 102     \* the messages sent in all

\* the rows of the chat, ascending by created_at
MessageIdsOf(c) ==
  SelectSeq([i \in 1..Len(messages) |-> i], LAMBDA i : messages[i].chat_id = c)

\* the first n elements of a sequence
Limit(seq, n) == SubSeq(seq, 1, IF Len(seq) < n THEN Len(seq) ELSE n)

\* the query of fetchMessages in subscribeToMessages(chatId, callback):
\* .eq('chat_id', chatId).order('created_at', { ascending: true }).limit(100)
fetchMessages(c) == Limit(MessageIdsOf(c), MessageLimit)

\* subscribeToMessages(chatId, setMessages): the fetch made on subscription
\* and on each change of the chat's messages, and its callback
subscribeToMessages(c) ==
  /\ c \in ChatIds
  /\ hooks' = [hooks EXCEPT !.messages = [chat_id |-> c, list |-> fetchMessages(c)]]
  /\ UNCHANGED <<page, store, history, calls, typing_status, clock, beside>>

NextHistory ==
  \/ /\ Len(messages) < MaxHistory
     /\ Start_sendMessage(Client, 1, "A", "hi")
  \/ StepMessages(Client)
  \/ Return(Client)
  \/ Idle(Client) /\ subscribeToMessages(1)

SpecHistory == InitGroup /\ [][NextHistory]_vars

\* the last n elements of a sequence
Recent(seq, n) ==
  SubSeq(seq, IF Len(seq) < n THEN 1 ELSE Len(seq) - n + 1, Len(seq))

\* C20: a delivery of subscribeToMessages for a chat is the 100 most recent
\* messages of the chat in ascending creation order, and all of them when
\* the chat holds at most 100
C20_RecentMessages ==
  [][hooks'.messages # hooks.messages =>
       hooks'.messages.list = Recent(MessageIdsOf(hooks'.messages.chat_id), MessageLimit)]_vars

----------------------------------------------------------------------------
(* Presence: public.user_presence has one row per user_id; the             *)
(* AuthProvider of a client writes it on sign-in and on signOut            *)

MaxSignIns == 2

\* .upsert({user_id, is_online, last_seen}, {onConflict: 'user_id'})
UpsertPresence(tbl, u, b) ==
  {r \in tbl : r.user_id # u}
    \cup {[user_id |-> u, is_online |-> b, last_seen |-> SomeTime]}

\* getUserPresence(userId): data?.is_online || false
getUserPresence(u) == \E r \in user_presence : r.user_id = u /\ r.is_online

\* the client sends the request of setUserPresence(u, b)
SendPresence(ses, u, b) ==
  [ses EXCEPT !.writes = @ \cup {[id |-> ses.issued + 1, user_id |-> u, is_online |-> b]},
              !.issued = @ + 1]

\* the change event of user_presence the store emits to the channel of the
\* subscriber, carrying the new row
Notify(n, u, b) ==
  IF n.watching = u THEN [n EXCEPT !.events = Append(@, b)] ELSE n

\* signIn(email, password): signInWithEmailAndPassword succeeds, the
\* listener of onAuthStateChanged sets firebaseUser; the listener and signIn
\* each go on to fetch the profile and call setupPresence
signIn(u) ==
  /\ session.pc = "out"
  /\ session.signIns < MaxSignIns
  /\ session' = [session EXCEPT !.firebaseUser = u, !.pc = "in",
                                !.signIns = @ + 1,
                                !.setups = @ \cup {<<"listener", u>>, <<"signIn", u>>}]
  /\ UNCHANGED <<page, store, history, calls, typing_status, clock, hooks,
                 user_presence, net, firestore>>

\* setUser(profile); setupPresence(uid), whose setUserPresence(uid, true) is
\* sent and not awaited
setupPresence(k) ==
  /\ k \in session.setups
  /\ session' = SendPresence([session EXCEPT !.setups = @ \ {k}, !.user = k[2]],
                             k[2], TRUE)
  /\ UNCHANGED <<page, store, history, calls, typing_status, clock, hooks,
                 user_presence, net, firestore>>

\* signOut(), up to its await of setUserPresence(firebaseUser.uid, false)
signOut_presence ==
  /\ session.pc = "in"
  /\ session.user # Null
  /\ session.firebaseUser # Null
  /\ session' = [SendPresence(session, session.firebaseUser, FALSE)
                   EXCEPT !.pc = "so_presence", !.awaited = session.issued + 1]
  /\ UNCHANGED <<page, store, history, calls, typing_status, clock, hooks,
                 user_presence, net, firestore>>

\* the awaited write has been applied: firebaseSignOut(auth); setUser(null)
signOut_auth ==
  /\ session.pc = "so_presence"
  /\ \A w \in session.writes : w.id # session.awaited
  /\ session' = [session EXCEPT !.pc = "out", !.signedOut = session.firebaseUser,
                                !.firebaseUser = Null, !.user = Null]
  /\ UNCHANGED <<page, store, history, calls, typing_status, clock, hooks,
                 user_presence, net, firestore>>

\* the client goes away without signOut (tab closed, network lost): what it
\* had not sent is never sent
Disconnect ==
  /\ session.pc = "in"
  /\ session' = [session EXCEPT !.pc = "gone", !.setups = {}]
  /\ UNCHANGED <<page, store, history, calls, typing_status, clock, hooks,
                 user_presence, net, firestore>>

\* the store applies one of the requests on their way, in any order
applyPresence(w) ==
  /\ w \in session.writes
  /\ user_presence' = UpsertPresence(user_presence, w.user_id, w.is_online)
  /\ session' = [session EXCEPT !.writes = @ \ {w}]
  /\ net' = Notify(net, w.user_id, w.is_online)
  /\ UNCHANGED <<page, store, history, calls, typing_status, clock, hooks,
                 firestore>>

NextPresence ==
  \/ \E u \in Users : signIn(u)
  \/ \E k \in session.setups : setupPresence(k)
  \/ signOut_presence
  \/ signOut_auth
  \/ Disconnect
  \/ \E w \in session.writes : applyPresence(w)

SpecPresence == Init /\ [][NextPresence]_vars

\* C21: once signOut has completed and every presence request of the client
\* has been applied, the row of the user signed out has is_online = false
C21_OfflineAfterSignOut ==
  (/\ session.pc = "out"
   /\ session.signedOut # Null
   /\ session.setups = {}
   /\ session.writes = {})
    => ~getUserPresence(session.signedOut)

\* the same client with the store at work: a request sent is applied in the
\* end, and sign-in code that has started goes on to its setupPresence; the
\* user is free to sign in, sign out or disconnect, or not
SpecPresenceLive ==
  /\ Init
  /\ [][NextPresence]_vars
  /\ WF_vars(\E w \in session.writes : applyPresence(w))
  /\ WF_vars(\E k \in session.setups : setupPresence(k))

\* C22: a user whose client was marked online and disconnected without
\* signOut is offline in the store in the end
C22_OfflineAfterDisconnect ==
  \A u \in Users :
    (session.pc = "gone" /\ session.firebaseUser = u /\ getUserPresence(u))
      ~> ~getUserPresence(u)

----------------------------------------------------------------------------
(* subscribeToUserPresence: one client watches the presence of a user      *)
(* while that user's client signs in and out                               *)

\* subscribeToUserPresence(userId, setIsOnline): fetchPresence() is started
\* and the channel presence_<userId> is joined
subscribeToUserPresence(u) ==
  /\ net.watching = Null
  /\ net' = [net EXCEPT !.watching = u,
                        !.fetches = @ \cup {NewFetch(net, "presence", FALSE)},
                        !.started = @ + 1]
  /\ UNCHANGED <<page, store, history, calls, typing_status, clock, hooks,
                 user_presence, session, firestore>>

\* the store answers getUserPresence(userId) of fetchPresence
fetchPresence_read(f) ==
  /\ f \in net.fetches
  /\ f.kind = "presence"
  /\ f.pc = "sent"
  /\ net' = [net EXCEPT !.fetches = (@ \ {f}) \cup
                 {[f EXCEPT !.pc = "read", !.value = getUserPresence(net.watching)]}]
  /\ UNCHANGED <<page, store, history, calls, typing_status, clock, hooks,
                 user_presence, session, firestore>>

\* the answer arrives: callback(isOnline)
fetchPresence_callback(f) ==
  /\ f \in net.fetches
  /\ f.kind = "presence"
  /\ f.pc = "read"
  /\ hooks' = [hooks EXCEPT !.isOnline = f.value]
  /\ net' = [net EXCEPT !.fetches = @ \ {f}]
  /\ UNCHANGED <<page, store, history, calls, typing_status, clock,
                 user_presence, session, firestore>>

\* the next change event of the channel arrives:
\* callback(payload.new?.is_online || false)
presenceEvent ==
  /\ net.events # <<>>
  /\ hooks' = [hooks EXCEPT !.isOnline = Head(net.events)]
  /\ net' = [net EXCEPT !.events = Tail(@)]
  /\ UNCHANGED <<page, store, history, calls, typing_status, clock,
                 user_presence, session, firestore>>

NextWatch ==
  \/ signIn("A")
  \/ \E k \in session.setups : setupPresence(k)
  \/ signOut_presence
  \/ signOut_auth
  \/ \E w \in session.writes : applyPresence(w)
  \/ subscribeToUserPresence("A")
  \/ \E f \in net.fetches : fetchPresence_read(f)
  \/ \E f \in net.fetches : fetchPresence_callback(f)
  \/ presenceEvent

SpecWatch == Init /\ [][NextWatch]_vars

\* C23: when no presence write, fetch or change event is outstanding, the
\* value last passed to the callback of subscribeToUserPresence is the
\* stored is_online of the user watched
C23_PresenceViewSettles ==
  (/\ net.watching # Null
   /\ net.fetches = {}
   /\ net.events = <<>>
   /\ session.writes = {}
   /\ session.setups = {})
    => hooks.isOnline = getUserPresence(net.watching)

----------------------------------------------------------------------------
(* subscribeToChats: one client keeps the chat list of a user while a      *)
(* participant sends messages and the user resets the counter              *)

NotRead == -1   \* an unread count fetchChats has not read yet

\* subscribeToChats(userId, callback): fetchChats() is started and the
\* channel chats_changes is joined
subscribeToChats(u) ==
  /\ net.chatsOf = Null
  /\ net' = [ChatsChanged([net EXCEPT !.chatsOf = u]) EXCEPT !.chatsOf = u]
  /\ UNCHANGED <<page, store, history, calls, typing_status, clock, hooks,
                 user_presence, session, firestore>>

\* fetchChats: the store answers the select of the chats that contain userId
fetchChats_chats(f) ==
  /\ f \in net.fetches
  /\ f.kind = "chats"
  /\ f.pc = "sent"
  /\ net' = [net EXCEPT !.fetches = (@ \ {f}) \cup
       {[f EXCEPT !.pc = "chats",
                  !.value = [c \in {d \in ChatIds : Contains(chats[d].participants, net.chatsOf)}
                               |-> NotRead]]}]
  /\ UNCHANGED <<page, store, history, calls, typing_status, clock, hooks,
                 user_presence, session, firestore>>

\* fetchChats: the store answers the select of the unread count of one of
\* the chats read: unreadData?.count || 0
fetchChats_unread(f, c) ==
  /\ f \in net.fetches
  /\ f.kind = "chats"
  /\ f.pc = "chats"
  /\ c \in DOMAIN f.value
  /\ f.value[c] = NotRead
  /\ net' = [net EXCEPT !.fetches = (@ \ {f}) \cup
       {[f EXCEPT !.value = [@ EXCEPT ![c] = UnreadCount(c, net.chatsOf)]]}]
  /\ UNCHANGED <<page, store, history, calls, typing_status, clock, hooks,
                 user_presence, session, firestore>>

\* fetchChats: Promise.all has settled, callback(chatsWithDetails), and
\* useChats keeps the list with unreadCount = unreadCounts?.[user.id] || 0
fetchChats_callback(f) ==
  /\ f \in net.fetches
  /\ f.kind = "chats"
  /\ f.pc = "chats"
  /\ \A c \in DOMAIN f.value : f.value[c] # NotRead
  /\ hooks' = [hooks EXCEPT !.chats = f.value]
  /\ net' = [net EXCEPT !.fetches = @ \ {f}]
  /\ UNCHANGED <<page, store, history, calls, typing_status, clock,
                 user_presence, session, firestore>>

NextChats ==
  \/ subscribeToChats("B")
  \/ MessageRoom /\ Start_sendMessage(Client, 1, "A", "hi")
  \/ clearUnreadCount(Client, 1, "B")
  \/ StepMessages(Client)
  \/ Return(Client)
  \/ \E f \in net.fetches : fetchChats_chats(f)
  \/ \E f \in net.fetches : \E c \in ChatIds : fetchChats_unread(f, c)
  \/ \E f \in net.fetches : fetchChats_callback(f)

SpecChats == InitGroup /\ [][NextChats]_vars

\* C24: when no write to the store is in progress and every fetchChats has
\* returned, the list last passed to the callback of subscribeToChats is
\* the chats of the store that contain the user, with the user's unread
\* counts
C24_ChatListSettles ==
  (/\ net.chatsOf # Null
   /\ net.fetches = {}
   /\ Idle(Client))
    => hooks.chats = ChatList(net.chatsOf)

----------------------------------------------------------------------------
(* syncProfileToSupabase: public.profiles has firebase_uid UNIQUE and      *)
(* username UNIQUE; first sign-ins and profile updates of two identities   *)

Identities == {"A", "B"}
TypedNames == {"Bob", "bob"}          \* usernames as typed
Stamps == {"1", "2"}                  \* Date.now().toString(36)

\* the same name without the case changed
toLowerCase_Keep(n) == n

\* String.prototype.toLowerCase()
toLowerCase(n) ==
  CASE n = "Bob" -> "bob"
    [] OTHER -> n

\* `${finalUsername}_${Date.now().toString(36)}`
Suffixed(n, t) ==
  CASE n = "bob" /\ t = "1" -> "bob_1"
    [] n = "bob" /\ t = "2" -> "bob_2"
    [] n = "Bob" /\ t = "1" -> "Bob_1"
    [] OTHER -> "Bob_2"

\* syncProfileToSupabase(firebaseUid, username, nickname)
Start_syncProfile(p, uid, username, nickname) ==
  /\ Idle(p)
  /\ calls' = [calls EXCEPT ![p] =
       [IdleCall EXCEPT !.op = "syncProfile", !.pc = "sp_existing",
                        !.user = uid, !.content = username, !.other = nickname]]
  /\ UNCHANGED <<aside, page, store, history>>

\* select('id').eq('firebase_uid', firebaseUid).maybeSingle()
syncProfile_existing(p) ==
  /\ calls[p].pc = "sp_existing"
  /\ calls' = [calls EXCEPT ![p] =
       IF MaybeSingle(getUserById(calls[p].user)) # {}
       THEN [@ EXCEPT !.pc = "sp_update", !.existing = 1]
       ELSE [@ EXCEPT !.pc = "sp_username", !.existing = 0]]
  /\ UNCHANGED <<aside, page, store, history>>

\* update({nickname, avatar, updated_at}).eq('firebase_uid', firebaseUid)
syncProfile_update(p) ==
  /\ calls[p].pc = "sp_update"
  /\ profiles' = {IF r.firebase_uid = calls[p].user
                  THEN [r EXCEPT !.nickname = calls[p].other] ELSE r : r \in profiles}
  /\ calls' = [calls EXCEPT ![p] = Finish(@, 0, "")]
  /\ UNCHANGED <<aside, page, chats, messages, unread_counts, friend_requests,
                 friends, group_members, history>>

\* finalUsername = username.toLowerCase(), suffixed when the select of that
\* username finds a row
syncProfile_username(p) ==
  /\ calls[p].pc = "sp_username"
  /\ LET final == toLowerCase(calls[p].content) IN
       \E t \in Stamps :
         calls' = [calls EXCEPT ![p] =
           [@ EXCEPT !.pc = "sp_insert",
                     !.content = IF MaybeSingle({r \in profiles : r.username = final}) # {}
                                 THEN Suffixed(final, t) ELSE final]]
  /\ UNCHANGED <<aside, page, store, history>>

\* insert({firebase_uid, username, nickname, avatar}); an error of the
\* insert is logged and the call returns
syncProfile_insert(p) ==
  /\ calls[p].pc = "sp_insert"
  /\ LET taken == \E r \in profiles :
                    r.firebase_uid = calls[p].user \/ r.username = calls[p].content
     IN /\ profiles' = IF taken THEN profiles
                       ELSE profiles \cup {[firebase_uid |-> calls[p].user,
                                            username |-> calls[p].content,
                                            nickname |-> calls[p].other]}
        /\ calls' = [calls EXCEPT ![p] =
             [Finish(@, 0, "") EXCEPT !.logged = IF taken THEN "unique" ELSE ""]]
  /\ UNCHANGED <<aside, page, chats, messages, unread_counts, friend_requests,
                 friends, group_members, history>>

NextProfiles ==
  \E p \in Callers :
    \/ \E uid \in Identities : \E n \in TypedNames : Start_syncProfile(p, uid, n, n)
    \/ syncProfile_existing(p)
    \/ syncProfile_update(p)
    \/ syncProfile_username(p)
    \/ syncProfile_insert(p)
    \/ Return(p)

\* nobody has a profile yet
InitProfiles ==
  /\ chats = <<>>
  /\ messages = <<>>
  /\ unread_counts = {}
  /\ friend_requests = {}
  /\ friends = <<>>
  /\ group_members = {}
  /\ profiles = {}
  /\ request_ids = 0
  /\ sends = <<>>
  /\ resets = <<>>
  /\ calls = [p \in Callers |-> IdleCall]
  /\ page = NewPage
  /\ typing_status = {}
  /\ clock = 0
  /\ hooks = NewHooks
  /\ user_presence = {}
  /\ session = NewSession
  /\ net = NewNet
  /\ firestore = NewFirestore

SpecProfiles == InitProfiles /\ [][NextProfiles]_vars

\* two usernames are equal ignoring case
SameFolded(a, b) ==
  \/ a = b
  \/ {a, b} = {"Bob", "bob"}
  \/ \E t \in Stamps : {a, b} = {Suffixed("Bob", t), Suffixed("bob", t)}

\* C25: no step changes the username of a profile that exists, and no two
\* profiles hold usernames that are equal ignoring case
C25_UsernameKept ==
  /\ [](\A r1 \in profiles : \A r2 \in profiles :
          SameFolded(r1.username, r2.username) => r1 = r2)
  /\ [][\A r \in profiles : \E n \in profiles' :
          n.firebase_uid = r.firebase_uid /\ n.username = r.username]_vars

\* a call for an identity that has a profile has changed the nickname, while
\* the other identity holds a profile
C25_Witness ==
  \E p \in Callers :
    /\ Done(p)
    /\ calls[p].op = "syncProfile"
    /\ calls[p].existing = 1
    /\ \E r \in profiles : /\ r.firebase_uid = calls[p].user
                           /\ r.nickname = calls[p].other
                           /\ r.username # toLowerCase(calls[p].content)
    /\ Cardinality(profiles) = 2

\* C29: a syncProfileToSupabase call that has returned leaves a profile row
\* for its identity
C29_ProfileForEachIdentity ==
  \A p \in Callers :
    (Done(p) /\ calls[p].op = "syncProfile") => getUserById(calls[p].user) # {}

----------------------------------------------------------------------------
(* sendMessage calls that may stop between two of their store operations   *)

\* the client of a sendMessage in progress stops: the call makes no further
\* request, what it has written stays
Crash(p) ==
  /\ Sending(p)
  /\ calls' = [calls EXCEPT ![p] =
       [IdleCall EXCEPT !.op = "crashed", !.user = calls[p].user,
                        !.err = calls[p].pc]]
  /\ UNCHANGED <<aside, page, store, history>>

NextCrash ==
  \E p \in Callers :
    \/ SendsStarted < MaxMessages
         /\ \E s \in Range(chats[1].participants) : Start_sendMessage(p, 1, s, "hi")
    \/ \E u \in Range(chats[1].participants) : clearUnreadCount(p, 1, u)
    \/ StepMessages(p)
    \/ Crash(p)
    \/ Return(p)

SpecCrash == InitGroup /\ [][NextCrash]_vars

\* the messages of chat c that u did not send
SentByOthers(c, u) ==
  {i \in DOMAIN messages : messages[i].chat_id = c /\ messages[i].sender_id # u}

----------------------------------------------------------------------------
(* sendMessage called again by a caller that saw its first call time out   *)
(* although the store had applied it                                       *)

\* the caller repeats a sendMessage that has been applied, with the same
\* arguments; sends counts it as the same send
Retry_sendMessage(p) ==
  /\ Done(p)
  /\ calls[p].op = "sendMessage"
  /\ ~calls[p].retried
  /\ calls' = [calls EXCEPT ![p] =
       [IdleCall EXCEPT !.op = "sendMessage", !.pc = "sm_insert",
                        !.chat = calls[p].chat, !.user = calls[p].user,
                        !.content = calls[p].content, !.retried = TRUE]]
  /\ UNCHANGED <<aside, page, store, history>>

NextRetry ==
  \/ MessageRoom /\ \E s \in Range(chats[1].participants) : \E content \in Contents :
                      Start_sendMessage(Client, 1, s, content)
  \/ MessageRoom /\ Retry_sendMessage(Client)
  \/ StepMessages(Client)
  \/ Return(Client)

SpecRetry == InitGroup /\ [][NextRetry]_vars

\* C27: when a sendMessage call has returned, retried or not, the chat holds
\* one message row for each send and the unread count of a participant is
\* the number of sends of the others
C27_RetrySafe ==
  (Done(Client) /\ calls[Client].op = "sendMessage") =>
    \A c \in ChatIds :
      /\ Cardinality({i \in DOMAIN messages : messages[i].chat_id = c}) = SendsBy(c, Users)
      /\ \A u \in Range(chats[c].participants) :
           UnreadCount(c, u) = SendsBy(c, Users \ {u})

----------------------------------------------------------------------------
(* getOrCreateDMChat called again and again by one client, in both orders  *)
(* of a pair, among other dm chats and a group of the same users           *)

DMPairs == {<<"A", "B">>, <<"B", "A">>, <<"A", "C">>, <<"C", "A">>, <<"A", "A">>}

\* the dm rows of chats stay under the bound: a call starts when it finds
\* its chat or there is room for the row it inserts
DMRoom(u1, u2) ==
  \/ FindDMChat(chats, u1, u2) # 0
  \/ Cardinality(ChatIds \ GroupIds) < MaxChats

NextSeqDM ==
  \/ \E d \in DMPairs : DMRoom(d[1], d[2]) /\ Start_getOrCreateDMChat(Client, d[1], d[2])
  \/ GroupRoom /\ \E n \in GroupNames : Start_createGroup(Client, n, "A", <<"B", "C">>)
  \/ getOrCreateDMChat_query(Client)
  \/ getOrCreateDMChat_insert(Client)
  \/ createGroup_insert(Client)
  \/ createGroup_members(Client)
  \/ Return(Client)

SpecSeqDM == Init /\ [][NextSeqDM]_vars

\* C28: a getOrCreateDMChat(a, b) of distinct users that has returned gave
\* the id of the one dm chat of a and b, and a call inserts a chat only when
\* no dm chat of its pair exists
C28_DMIdempotentSymmetric ==
  /\ []((/\ Done(Client)
         /\ calls[Client].op = "getOrCreateDMChat"
         /\ calls[Client].user # calls[Client].other)
          => DMChatsOf(calls[Client].user, calls[Client].other) = {calls[Client].ret})
  /\ [][(/\ calls[Client].op = "getOrCreateDMChat"
         /\ calls[Client].user # calls[Client].other
         /\ Len(chats') > Len(chats))
          => DMChatsOf(calls[Client].user, calls[Client].other) = {}]_vars

\* the call of B for the pair (B, A) returned the chat the call of A for
\* (A, B) had created, while A has a dm chat with C and a group with both
C28_Witness ==
  /\ Done(Client)
  /\ calls[Client].op = "getOrCreateDMChat"
  /\ calls[Client].user = "B"
  /\ calls[Client].other = "A"
  /\ calls[Client].ret \in ChatIds
  /\ chats[calls[Client].ret].participants = <<"A", "B">>
  /\ DMChatsOf("A", "C") # {}
  /\ GroupIds # {}

----------------------------------------------------------------------------
(* The Firestore sendMessage: concurrent sends to the dm chat document of  *)
(* A and B, whose participants do not change                               *)

FsChatIds == 1..Len(firestore)

\* every participant of the list, the sender too
FsOthers_All(parts, senderId) == Range(parts)

\* participants.forEach(id => { if (id !== senderId) ... })
FsOthers(parts, senderId) == {u \in Range(parts) : u # senderId}

\* updates[`unreadCounts.${participantId}`] = increment(1), applied by the
\* store to the document as it is: an absent field counts as 0
Increment(counts, S) ==
  [u \in DOMAIN counts \cup S |->
     IF u \in S THEN (IF u \in DOMAIN counts THEN counts[u] ELSE 0) + 1
     ELSE counts[u]]

FsSending(q) == calls[q].pc \in {"fs_add", "fs_get", "fs_update"}

\* sendMessage(chatId, senderId, senderName, content)
Start_fsSendMessage(p, c, s, content) ==
  /\ Idle(p)
  /\ c \in FsChatIds
  /\ calls' = [calls EXCEPT ![p] =
       [IdleCall EXCEPT !.op = "fsSendMessage", !.pc = "fs_add",
                        !.chat = c, !.user = s, !.content = content]]
  /\ sends' = Bump(sends, <<c, s>>)
  /\ UNCHANGED <<page, store, request_ids, resets, typing_status, clock, hooks,
                 user_presence, session, net, firestore>>

\* addDoc(collection(db, 'chats', chatId, 'messages'), {...})
fsSendMessage_addDoc(p) ==
  /\ calls[p].pc = "fs_add"
  /\ firestore' = [firestore EXCEPT ![calls[p].chat].messages = @ + 1]
  /\ calls' = [calls EXCEPT ![p].pc = "fs_get",
                            ![p].ret = firestore[calls[p].chat].messages + 1]
  /\ UNCHANGED <<page, store, history, typing_status, clock, hooks,
                 user_presence, session, net>>

\* getDoc(chatRef): the participants of the document
fsSendMessage_getDoc(p) ==
  /\ calls[p].pc = "fs_get"
  /\ calls' = [calls EXCEPT ![p].pc = "fs_update",
                            ![p].parts = firestore[calls[p].chat].participants]
  /\ UNCHANGED <<aside, page, store, history>>

\* updateDoc(chatRef, updates): lastMessage and the increments in one write
fsSendMessage_updateDoc(p) ==
  /\ calls[p].pc = "fs_update"
  /\ firestore' = [firestore EXCEPT
       ![calls[p].chat].lastMessage = calls[p].content,
       ![calls[p].chat].unreadCounts = Increment(@, FsOthers(calls[p].parts, calls[p].user))]
  /\ calls' = [calls EXCEPT ![p] = Finish(@, calls[p].ret, "")]
  /\ UNCHANGED <<page, store, history, typing_status, clock, hooks,
                 user_presence, session, net>>

NextFirestore ==
  \E p \in Callers :
    \/ SendsStarted < MaxMessages
         /\ \E c \in FsChatIds : \E s \in Range(firestore[c].participants) :
              \E content \in Contents : Start_fsSendMessage(p, c, s, content)
    \/ fsSendMessage_addDoc(p)
    \/ fsSendMessage_getDoc(p)
    \/ fsSendMessage_updateDoc(p)
    \/ Return(p)

SpecFirestore == Init /\ [][NextFirestore]_vars

\* unreadCounts[u] of the chat document, 0 when the field is absent
FsUnread(c, u) ==
  IF u \in DOMAIN firestore[c].unreadCounts THEN firestore[c].unreadCounts[u] ELSE 0

\* C30: the unread count of a participant in the chat document is the
\* number of sendMessage calls of the others that have completed (those
\* started less those in progress), and so a sender's own send never changes
\* the sender's entry
C30_FirestoreIncrement ==
  \A c \in FsChatIds : \A u \in Range(firestore[c].participants) :
    FsUnread(c, u) =
      SendsBy(c, Users \ {u})
        - Cardinality({q \in Callers : FsSending(q) /\ calls[q].chat = c /\ calls[q].user # u})

\* two sends of A overlap: one has returned, the other has added its message
\* and read the document and has yet to write, with B's count at 1
C30_Witness ==
  \E p \in Callers : \E q \in Callers :
    /\ Done(p) /\ calls[p].op = "fsSendMessage" /\ calls[p].user = "A"
    /\ calls[q].pc = "fs_update" /\ calls[q].user = "A"
    /\ calls[q].ret < calls[p].ret
    /\ FsUnread(1, "B") = 1

----------------------------------------------------------------------------
(* The summary of a chat after concurrent sendMessage calls *)

\* the message row of chat c with the greatest created_at (created_at is
\* DEFAULT now() of the insert, so the row inserted last), 0 without rows
NewestMessage(c) ==
  IF MessagesOf(c) = {} THEN 0
  ELSE CHOOSE i \in MessagesOf(c) : \A j \in MessagesOf(c) : j <= i

\* C31: once the sendMessage calls to a chat have all completed, the chat's
\* last_message is the content of the message row with the greatest
\* created_at of that chat
C31_SummaryIsNewest ==
  \A c \in ChatIds :
    (MessagesOf(c) # {} /\ ~\E q \in Callers : Sending(q) /\ calls[q].chat = c)
    => chats[c].last_message = messages[NewestMessage(c)].content

----------------------------------------------------------------------------
(* The participants lists of the chats *)

\* C32: no chat's participants list holds a user id twice, whatever
\* createGroup, addGroupMember and removeGroupMember calls have run
C32_ParticipantsUnique ==
  \A c \in ChatIds :
    Cardinality(Range(chats[c].participants)) = Len(chats[c].participants)

\* C34: every chat has at least 2 participants, whatever removeGroupMember
\* and leaveGroup calls have run
C34_AtLeastTwoParticipants ==
  \A c \in ChatIds : Len(chats[c].participants) >= 2

\* the ids of the group_members rows of chat c
MemberIdsOf(tbl, c) == {r.user_id : r \in {x \in tbl : x.chat_id = c}}

\* the rows of chat c with role admin
AdminRows(tbl, c) == {r \in tbl : r.chat_id = c /\ r.role = "admin"}

\* no createGroup, addGroupMember or removeGroupMember call is between two
\* of its requests
GroupsSettled == \A p \in Callers : calls[p].pc \in {"idle", "done"}

\* the step is the insert into group_members of the createGroup call p
CreatesMembers(p) == calls[p].pc = "cg_members" /\ calls'[p].pc = "done"

\* the step is the delete from group_members of a removeGroupMember call
\* for the user of an admin row of chat c
RemovesAdmin(p, c) ==
  /\ calls[p].pc = "gm_member" /\ calls'[p].pc = "done"
  /\ calls[p].op = "removeGroupMember" /\ calls[p].chat = c
  /\ \E r \in AdminRows(group_members, c) : r.user_id = calls[p].user

----------------------------------------------------------------------------
(* Concurrent addGroupMember and removeGroupMember calls on the group of   *)
(* A, B and C, each about a user no other call in flight or just settled   *)
(* is about; the users added are in no list the store holds or a call is   *)
(* about to write, and the creator A stays                                 *)

Movable == {"B", "C"}

\* a member change about user u is held by some caller
Concerned(u) ==
  \E q \in Callers : calls[q].op \in {"addGroupMember", "removeGroupMember"}
                     /\ calls[q].user = u

\* u is neither in the participants list of c nor in a list a call has read
\* and will write back
Absent(c, u) ==
  /\ ~Contains(chats[c].participants, u)
  /\ \A q \in Callers :
       (calls[q].pc = "gm_update" /\ calls[q].chat = c) => ~Contains(calls[q].parts, u)

NextMembers ==
  \E p \in Callers :
    \/ \E c \in GroupIds, u \in Movable :
         /\ ~Concerned(u)
         /\ Absent(c, u)
         /\ MemberRoom(c)
         /\ Start_memberChange(p, "addGroupMember", c, u)
    \/ \E c \in GroupIds, u \in Movable :
         /\ ~Concerned(u)
         /\ Start_memberChange(p, "removeGroupMember", c, u)
    \/ memberChange_read(p)
    \/ memberChange_update(p)
    \/ memberChange_member(p)
    \/ Return(p)

SpecMembers == InitUnread /\ [][NextMembers]_vars

\* the participants list of the chat shows what the settled call p did
Reflected(p) ==
  IF calls[p].op = "addGroupMember"
  THEN Contains(chats[calls[p].chat].participants, calls[p].user)
  ELSE ~Contains(chats[calls[p].chat].participants, calls[p].user)

\* C33: when an addGroupMember and another addGroupMember or a
\* removeGroupMember, about different users of one chat, have both
\* completed, the participants list reflects both
C33_MemberUpdatesKept ==
  \A p \in Callers : \A q \in Callers \ {p} :
    ( /\ Done(p) /\ calls[p].op = "addGroupMember"
      /\ Done(q) /\ calls[q].op \in {"addGroupMember", "removeGroupMember"}
      /\ calls[p].chat = calls[q].chat )
    => Reflected(p) /\ Reflected(q)

----------------------------------------------------------------------------
(* acceptFriendRequest for a request whose row is gone *)

\* the request of the acceptFriendRequest call p was rejected: the
\* rejectFriendRequest call that deleted its row has settled
Rejected(p) ==
  /\ calls[p].op = "acceptFriendRequest"
  /\ \E q \in Callers : /\ Done(q) /\ calls[q].op = "rejectFriendRequest"
                        /\ calls[q].req = calls[p].req

\* C36: no step of an acceptFriendRequest call for a rejected request
\* inserts a friends row or a chat, and the call fails
C36_RejectedNeverAccepted ==
  [][\A p \in Callers :
       (Rejected(p) /\ calls'[p] # calls[p])
       => /\ friends' = friends
          /\ chats' = chats
          /\ (calls'[p].pc = "done" => calls'[p].err # "")]_vars

\* C37: for distinct users u and f, an acceptFriendRequest call that
\* returns a chat id leaves both friends rows (u,f) and (f,u) in the store,
\* and a call whose insert of the pair is refused fails instead of going on
C37_AcceptReportsFailure ==
  /\ [](\A p \in Callers :
          (AcceptDone(p) /\ calls[p].err = "")
          => /\ FriendRows(friends, calls[p].user, calls[p].other) # {}
             /\ FriendRows(friends, calls[p].other, calls[p].user) # {})
  /\ [][\A p \in Callers :
          ( /\ calls[p].pc = "acc_insert" /\ calls[p].user # calls[p].other
            /\ calls'[p] # calls[p] /\ friends' = friends )
          => (calls'[p].pc = "done" /\ calls'[p].err # "")]_vars

----------------------------------------------------------------------------
(* The Chat page of B while A sends to the dm chat of A and B, C opens a   *)
(* dm chat with B and sends to it, one call at a time; the page receives   *)
(* its list and the user acts between the calls                            *)

NextNotify ==
  \/ ChatRoom /\ Start_getOrCreateDMChat(Client, "C", PageUser)
  \/ getOrCreateDMChat_query(Client)
  \/ getOrCreateDMChat_insert(Client)
  \/ /\ page.issued = {} /\ MessageRoom
     /\ \E c \in ChatIds : \E s \in Range(chats[c].participants) \ {PageUser} :
          Start_sendMessage(Client, c, s, "hi")
  \/ StepMessages(Client)
  \/ Return(Client)
  \/ Idle(Client) /\ Page_chatsUpdate
  \/ Idle(Client) /\ \E c \in ChatIds : handleSelectChat(c)
  \/ Idle(Client) /\ \E c \in 1..MaxChats : handleSelectChatById(c)
  \/ Idle(Client) /\ \E c \in ChatIds : Page_clearUnreadCount(c)

SpecNotify == InitGroup /\ [][NextNotify]_vars

\* C38: on each chats update a notification is fired for chat c exactly when
\* the previous snapshot was non-empty, c's unread count in the new snapshot
\* is greater than in the previous one (0 for a chat that was not in it) and
\* c is not the selected chat; the new snapshot then is the previous one
C38_NotifyOnGrowth ==
  [][Page_chatsUpdate =>
       /\ \A c \in 1..MaxChats :
            c \in page'.notified
              <=> /\ DOMAIN page.prev # {}
                  /\ c \in DOMAIN page'.chats
                  /\ UnreadIn(page'.chats, c) > UnreadIn(page.prev, c)
                  /\ c # page.selected
       /\ page'.notified \subseteq 1..MaxChats
       /\ page'.prev = page'.chats]_vars

\* the last update fired for the new chat 2 and not for chat 1, which is
\* selected and has an unread message in the snapshot
C38_Witness ==
  /\ page.notified = {2}
  /\ page.selected = 1
  /\ UnreadIn(page.chats, 1) > 0
  /\ page.prev = page.chats

====
